---- MODULE Spec2Model ----
(***************************************************************************)
(* A model of the Strava metrics calculator (class StravaMetrics): the     *)
(* engine holds an activity list and a profile computed once by the        *)
(* constructor; every derivation operation is a step that reads them and   *)
(* leaves its return value in ret.                                         *)
(*                                                                         *)
(* Strings.  A string the engine builds or searches is a sequence of its   *)
(* characters.                                                             *)
(*                                                                         *)
(* The page.  The page script (gallery, modal viewer, keyboard, sidebar,   *)
(* theme) and the charts script are modelled next to the engine: page and  *)
(* charts hold their state, and a step is one event with every listener   *)
(* it reaches.  They are NoObject where only the engine is studied.        *)
(*                                                                         *)
(* Numbers.  JavaScript numbers are IEEE doubles; here they are integers   *)
(* or fixed-point integers: a name ending in 6 counts millionths, a name   *)
(* ending in 10 counts tenths.  Rational expressions are rounded exactly   *)
(* (Math.round(x) = floor(x + 1/2)).  All intermediate products stay       *)
(* below 2^31.                                                             *)
(*                                                                         *)
(* Time.  A Date is an instant counted in whole hours since an epoch, in   *)
(* UTC.  A calendar date string "YYYY-MM-DD" is the number of its day.     *)
(* The host time zone is a record [before, after, day, hour]: the offset   *)
(* (hours east of UTC) before and after the one daylight-saving change in  *)
(* reach, and the local day and hour of that change.                       *)
(***************************************************************************)
EXTENDS Integers, Sequences, FiniteSets, TLC

VARIABLES
    activities,   \* this.activities: the sequence of activity records
    yearsActive,  \* the current year minus the year of this.athlete.created_at
    maxHR,        \* this.maxHR
    thresholdHR,  \* this.thresholdHR
    restingHR,    \* this.restingHR
    ftp,          \* this.ftp
    now,          \* the wall clock: the instant new Date() returns
    zone,         \* the host's time zone
    op,           \* the operation called last ("new" after construction)
    arg,          \* its argument
    ret,          \* its return value
    error,        \* "none" when the call returned, else the name of the exception it raised
    seen,         \* an earlier call kept for comparison: [op, arg, now, ret, error], or NoObject
    page,         \* the state of the page script: its variables and the classes it sets
    charts        \* the state of the charts script: its theme observers and their calls

vars == <<activities, yearsActive, maxHR, thresholdHR, restingHR, ftp, now, zone, op, arg, ret, error, seen,
          page, charts>>

engine == <<activities, yearsActive, maxHR, thresholdHR, restingHR, ftp>>

-----------------------------------------------------------------------------
(* JavaScript values *)

\* An absent field (undefined) and the null a function returns in place of a number.
Undefined == -900001
Null == -900002
\* The null or undefined in place of an object.
NoObject == [null |-> TRUE]
\* The number NaN.
NaN == -900003

\* ToBoolean on a number or an absent field: undefined, null, NaN and 0 are falsy.
Truthy(x) == x # Undefined /\ x # Null /\ x # NaN /\ x # 0

\* a || b
OrElse(a, b) == IF Truthy(a) THEN a ELSE b

\* Math.round of the rational n / d: the integer nearest to it, a half going up.
Round(n, d) == IF d > 0 THEN (2 * n + d) \div (2 * d) ELSE (2 * (-n) + (-d)) \div (2 * (-d))

Max(S) == CHOOSE x \in S : \A y \in S : y <= x

Range(s) == {s[i] : i \in DOMAIN s}

-----------------------------------------------------------------------------
(* Fixed point: x6 counts millionths *)

\* floor(a * b / 10^6) for b >= 0, without leaving 32 bits: both are split at 1000.
Mul6(a, b) ==
    LET ah == a \div 1000
        al == a % 1000
        bh == b \div 1000
        bl == b % 1000
    IN  ah * bh + (ah * bl + al * bh + (al * bl) \div 1000) \div 1000

\* Math.exp(f6 / 10^6) for 0 <= f6 < 10^6, by its series: term is the k-th term.
RECURSIVE ExpSeries6(_, _, _)
ExpSeries6(f6, k, term) ==
    IF term = 0 THEN 0
    ELSE term + ExpSeries6(f6, k + 1, Mul6(term, f6) \div k)

\* Math.exp(-f6 / 10^6) for 0 <= f6 < 10^6, by its alternating series.
RECURSIVE ExpNegSeries6(_, _, _)
ExpNegSeries6(f6, k, term) ==
    IF term = 0 THEN 0
    ELSE term + ExpNegSeries6(f6, k + 1, (-Mul6(term, f6)) \div k)

\* r6 * e^n and r6 * e^-n
RECURSIVE TimesE6(_, _)
TimesE6(n, r6) == IF n = 0 THEN r6 ELSE TimesE6(n - 1, Mul6(r6, 2718282))

RECURSIVE OverE6(_, _)
OverE6(n, r6) == IF n = 0 \/ r6 = 0 THEN r6 ELSE OverE6(n - 1, Mul6(r6, 367879))

\* Math.exp(x6 / 10^6), in millionths.
Exp6(x6) ==
    IF x6 >= 0
    THEN TimesE6(x6 \div 1000000, ExpSeries6(x6 % 1000000, 1, 1000000))
    ELSE OverE6((-x6) \div 1000000, ExpNegSeries6((-x6) % 1000000, 1, 1000000))

-----------------------------------------------------------------------------
(* The constructor *)

RestingHR == 60
DefaultFTP == 250
AssumedAge == 25

\* calculateAge(createdAt): yearsActive = currentYear - accountYear
calculateAge(years) == AssumedAge + years

\* a.weighted_average_watts || a.average_watts
Power(a) == OrElse(a.weighted_average_watts, a.average_watts)

\* A slip the claims below must catch: the efforts ranked by average_watts.
estimateFTP_byAverage(acts) ==
    LET withPower(a) == Truthy(a.average_watts) /\ a.moving_time >= 1200
        activitiesWithPower == SelectSeq(acts, withPower)
        in20to30(a) == a.moving_time >= 1200 /\ a.moving_time <= 1800
        best20 == SelectSeq(activitiesWithPower, in20to30)
        best == CHOOSE a \in Range(best20) : \A b \in Range(best20) : b.average_watts <= a.average_watts
    IN  IF Len(activitiesWithPower) = 0 THEN DefaultFTP
        ELSE IF Len(best20) > 0
             THEN Round(Power(best) * 95, 100)
             ELSE Round(Max({a.average_watts : a \in Range(activitiesWithPower)}) * 75, 100)

\* Another slip: the fallback taken from the weighted power.
estimateFTP_weightedFallback(acts) ==
    LET withPower(a) == Truthy(a.average_watts) /\ a.moving_time >= 1200
        activitiesWithPower == SelectSeq(acts, withPower)
        in20to30(a) == a.moving_time >= 1200 /\ a.moving_time <= 1800
        best20 == SelectSeq(activitiesWithPower, in20to30)
    IN  IF Len(activitiesWithPower) = 0 THEN DefaultFTP
        ELSE IF Len(best20) > 0
             THEN Round(Max({Power(a) : a \in Range(best20)}) * 95, 100)
             ELSE Round(Max({Power(a) : a \in Range(activitiesWithPower)}) * 75, 100)

\* estimateFTP(): Math.round of 0.95 times the best power of the efforts of
\* 20 to 30 minutes, else of 0.75 times the best average_watts.
estimateFTP(acts) ==
    LET withPower(a) == Truthy(a.average_watts) /\ a.moving_time >= 1200
        activitiesWithPower == SelectSeq(acts, withPower)
        in20to30(a) == a.moving_time >= 1200 /\ a.moving_time <= 1800
        best20 == SelectSeq(activitiesWithPower, in20to30)
    IN  IF Len(activitiesWithPower) = 0 THEN DefaultFTP
        ELSE IF Len(best20) > 0
             THEN Round(Max({Power(a) : a \in Range(best20)}) * 95, 100)
             ELSE Round(Max({a.average_watts : a \in Range(activitiesWithPower)}) * 75, 100)

-----------------------------------------------------------------------------
(* calculateTSS *)

\* A slip the claims below must catch: the intensity factor not squared.
powerTSS_linear(a, f) ==
    IF a.moving_time = Undefined THEN NaN
    ELSE Round(a.moving_time * a.average_watts, 36 * f)

\* The power branch: Math.round(durationHours * IF * IF * 100)
powerTSS(a, f) ==
    IF a.moving_time = Undefined THEN NaN
    ELSE Round(a.moving_time * a.average_watts * a.average_watts, 36 * f * f)

\* The heart-rate branch: Math.round(TRIMP),
\* TRIMP = moving_time / 60 * hrr * 0.64 * Math.exp(1.92 * hrr)
hrTSS(a, mhr, rhr) ==
    IF a.moving_time = Undefined \/ mhr = rhr THEN NaN
    ELSE LET hrr6 == ((a.average_heartrate - rhr) * 1000000) \div (mhr - rhr)
             e6 == Exp6(Mul6(hrr6, 1920000))
             minutes064 == (a.moving_time * 32000) \div 3
             trimp6 == IF hrr6 >= 0 THEN Mul6(Mul6(hrr6, e6), minutes064)
                       ELSE -Mul6(Mul6(-hrr6, e6), minutes064)
         IN  Round(trimp6, 1000000)

\* A slip the claims below must catch: a pace of exactly 4.5 or 5.5 min/km
\* counted with the faster paces.
paceTSS_inclusive(a) ==
    LET fast == 100 * a.moving_time <= 27 * a.distance
        steady == 100 * a.moving_time <= 33 * a.distance
        intensity10 == IF fast THEN 12 ELSE IF steady THEN 8 ELSE 5
    IN  Round(a.moving_time * intensity10, 600)

\* The pace branch: Math.round(durationHours * 60 * intensity)
paceTSS(a) ==
    LET \* paceMinPerKm < 4.5 and < 5.5, on moving_time / 60 / (distance / 1000)
        fast == 100 * a.moving_time < 27 * a.distance
        steady == 100 * a.moving_time < 33 * a.distance
        intensity10 == IF fast THEN 12 ELSE IF steady THEN 8 ELSE 5
    IN  Round(a.moving_time * intensity10, 600)

\* A slip the claims below must catch: heart rate tried before power.
calculateTSS_heartRateFirst(a, f, mhr, rhr) ==
    IF a.has_heartrate /\ Truthy(a.average_heartrate) THEN hrTSS(a, mhr, rhr)
    ELSE IF Truthy(a.average_watts) /\ Truthy(f) THEN powerTSS(a, f)
    ELSE IF Truthy(a.distance) /\ Truthy(a.moving_time) THEN paceTSS(a)
    ELSE 0

calculateTSS(a, f, mhr, rhr) ==
    IF Truthy(a.average_watts) /\ Truthy(f) THEN powerTSS(a, f)
    ELSE IF a.has_heartrate /\ Truthy(a.average_heartrate) THEN hrTSS(a, mhr, rhr)
    ELSE IF Truthy(a.distance) /\ Truthy(a.moving_time) THEN paceTSS(a)
    ELSE 0

-----------------------------------------------------------------------------
(* Activity records *)

\* An activity: name, start_date_local (the day and hour it shows), and the
\* summary fields the engine reads; an absent field is Undefined.
Act(nm, day, hour, mt, dist, hasHr, hr, w, ww) ==
    [name |-> nm, start_day |-> day, start_hour |-> hour, moving_time |-> mt,
     distance |-> dist, has_heartrate |-> hasHr, average_heartrate |-> hr,
     average_watts |-> w, weighted_average_watts |-> ww]

\* The state the constructor leaves, given its inputs.
Construct(acts, years) ==
    /\ activities = acts
    /\ yearsActive = years
    /\ maxHR = 220 - calculateAge(years)
    /\ thresholdHR = Round((220 - calculateAge(years)) * 9, 10)
    /\ restingHR = RestingHR
    /\ ftp = estimateFTP(acts)
    /\ op = "new"
    /\ arg = Undefined
    /\ ret = Undefined
    /\ error = "none"
    /\ seen = NoObject
    /\ page = NoObject
    /\ charts = NoObject

UTC == [before |-> 0, after |-> 0, day |-> 0, hour |-> 0]

-----------------------------------------------------------------------------
(* Date *)

\* The instant at which the zone's offset changes.
TransitionUTC(z) == z.day * 24 + z.hour - z.before

\* The offset in force at instant t.
OffsetAt(z, t) == IF t < TransitionUTC(z) THEN z.before ELSE z.after

\* The local time (hours since the epoch, on the local clock) of instant t.
LocalOf(z, t) == t + OffsetAt(z, t)

\* The instant of local time l.  A local time the change skips or repeats is
\* read with the offset before the change (ECMAScript, UTC(t)).
UTCOfLocal(z, l) ==
    IF l - z.before < TransitionUTC(z) THEN l - z.before
    ELSE IF l - z.after >= TransitionUTC(z) THEN l - z.after
    ELSE l - z.before

\* d.setDate(d.getDate() + n): the local calendar day moves, the local time of day stays.
setDatePlus(z, t, n) == UTCOfLocal(z, LocalOf(z, t) + 24 * n)

\* d.toDateString(): the local calendar day.
toDateString(z, t) == LocalOf(z, t) \div 24

\* d.toISOString().split('T')[0]: the calendar day in UTC.
toISODate(t) == t \div 24

\* new Date(a.start_date_local): the string ends in Z, so its day and hour are read as UTC.
parseStart(a) == a.start_day * 24 + a.start_hour

-----------------------------------------------------------------------------
(* Training load *)

\* 1 - Math.exp(-1/42) and 1 - Math.exp(-1/7), in units of 10^-9.
K42 == 23528313
K7 == 133122100

\* floor(x * k / 10^9) without leaving 32 bits: x and k are split at 10^4.
TimesK(x, k) ==
    LET xh == x \div 10000
        xl == x % 10000
        kh == k \div 10000
        kl == k % 10000
        a == xh * kh
        m == xh * kl + xl * kh + (xl * kl) \div 10000
    IN  (a \div 10) + ((a % 10) * 10000 + m) \div 100000

\* sum + b in a reduce, NaN absorbing
Plus(x, y) == IF x = NaN \/ y = NaN THEN NaN ELSE x + y

\* .filter(same local day as date).reduce((sum, a) => sum + calculateTSS(a), 0)
RECURSIVE tssToday(_, _, _, _, _, _)
tssToday(acts, z, date, f, mhr, rhr) ==
    IF acts = <<>> THEN 0
    ELSE LET a == Head(acts)
             rest == tssToday(Tail(acts), z, date, f, mhr, rhr)
         IN  IF toDateString(z, parseStart(a)) = toDateString(z, date)
             THEN Plus(calculateTSS(a, f, mhr, rhr), rest)
             ELSE rest

\* previous + (tssToday - previous) * k, on values counted in millionths
ewma(previous6, tss, k) ==
    IF previous6 = NaN \/ tss = NaN THEN NaN
    ELSE previous6 + TimesK(tss * 1000000 - previous6, k)

calculateCTL(acts, z, date, previousCTL6, f, mhr, rhr) ==
    ewma(previousCTL6, tssToday(acts, z, date, f, mhr, rhr), K42)

calculateATL(acts, z, date, previousATL6, f, mhr, rhr) ==
    ewma(previousATL6, tssToday(acts, z, date, f, mhr, rhr), K7)

\* A slip the claims below must catch: the difference taken the wrong way round.
calculateTSB_swapped(ctl6, atl6) == IF ctl6 = NaN \/ atl6 = NaN THEN NaN ELSE atl6 - ctl6

calculateTSB(ctl6, atl6) == IF ctl6 = NaN \/ atl6 = NaN THEN NaN ELSE ctl6 - atl6

\* Math.round(x * 10) / 10, in tenths
round1(x6) == IF x6 = NaN THEN NaN ELSE Round(x6, 100000)

\* [...acts].sort((a, b) => new Date(a.start_date_local) - new Date(b.start_date_local)):
\* a stable sort of a copy.
RECURSIVE insertByStart(_, _)
insertByStart(a, s) ==
    IF s = <<>> THEN <<a>>
    ELSE IF parseStart(Head(s)) <= parseStart(a) THEN <<Head(s)>> \o insertByStart(a, Tail(s))
    ELSE <<a>> \o s

RECURSIVE sortByStart(_)
sortByStart(s) ==
    IF s = <<>> THEN <<>>
    ELSE insertByStart(s[Len(s)], sortByStart(SubSeq(s, 1, Len(s) - 1)))

\* The point pushed for d.
loadPoint(d, ctl6, atl6) ==
    [date |-> toISODate(d), ctl |-> round1(ctl6), atl |-> round1(atl6),
     tsb |-> round1(calculateTSB(ctl6, atl6))]

\* A slip the claims below must catch: the rounded values carried to the
\* next day.
RECURSIVE loadLoop_roundedBack(_, _, _, _, _, _, _, _, _)
loadLoop_roundedBack(d, today, ctl6, atl6, sorted, z, f, mhr, rhr) ==
    IF d > today THEN <<>>
    ELSE LET c == calculateCTL(sorted, z, d, ctl6, f, mhr, rhr)
             a == calculateATL(sorted, z, d, atl6, f, mhr, rhr)
         IN  <<loadPoint(d, c, a)>>
                 \o loadLoop_roundedBack(setDatePlus(z, d, 1), today, round1(c) * 100000,
                                         round1(a) * 100000, sorted, z, f, mhr, rhr)

\* for (let d = new Date(startDate); d <= today; d.setDate(d.getDate() + 1))
RECURSIVE loadLoop(_, _, _, _, _, _, _, _, _)
loadLoop(d, today, ctl6, atl6, sorted, z, f, mhr, rhr) ==
    IF d > today THEN <<>>
    ELSE LET c == calculateCTL(sorted, z, d, ctl6, f, mhr, rhr)
             a == calculateATL(sorted, z, d, atl6, f, mhr, rhr)
         IN  <<loadPoint(d, c, a)>>
                 \o loadLoop(setDatePlus(z, d, 1), today, c, a, sorted, z, f, mhr, rhr)

\* A slip the claims below must catch: the load of the activities before
\* the window carried into its first day.
generateTrainingLoadHistory_carried(daysBack, acts, today, z, f, mhr, rhr) ==
    LET startDate == setDatePlus(z, today, -daysBack)
        early(a) == toDateString(z, parseStart(a)) < toDateString(z, startDate)
        before == SelectSeq(acts, early)
        tss == IF before = <<>> THEN 0 ELSE calculateTSS(before[1], f, mhr, rhr)
    IN  loadLoop(startDate, today, ewma(0, tss, K42), ewma(0, tss, K7), sortByStart(acts), z, f, mhr, rhr)

generateTrainingLoadHistory(daysBack, acts, today, z, f, mhr, rhr) ==
    loadLoop(setDatePlus(z, today, -daysBack), today, 0, 0, sortByStart(acts), z, f, mhr, rhr)

-----------------------------------------------------------------------------
(* VO2max *)

\* floor(a * b / c) for b >= 0 and c > 0 with c * b below 2^31
MulDiv(a, b, c) == (a \div c) * b + ((a % c) * b) \div c

\* Math.round(10 * n / d) for d > 0
RoundTimes10(n, d) == 10 * (n \div d) + (20 * (n % d) + d) \div (2 * d)

\* velocity = distance / (moving_time / 60), m/min in millionths
velocity6(a) ==
    LET m == a.distance * 60
        r == m % a.moving_time
        r3 == r * 1000
    IN  (m \div a.moving_time) * 1000000
            + ((r3 \div a.moving_time) * 1000 + ((r3 % a.moving_time) * 1000) \div a.moving_time)

\* Math.round(vdot * 10), the Daniels formula:
\* (-4.6 + 0.182258 v + 0.000104 v^2)
\*     / (0.8 + 0.1894393 e^(-0.012778 t) + 0.2989558 e^(-0.1932605 t))
vdot10(a) ==
    LET v6 == velocity6(a)
        \* v^2 in thousandths
        vv3 == Mul6(v6, v6 \div 1000) + Mul6(v6, v6 % 1000) \div 1000
        num6 == -4600000 + Mul6(v6, 182258) + MulDiv(vv3, 104, 1000)
        e1 == Exp6(-((a.moving_time * 12778) \div 60))
        e2 == Exp6(-MulDiv(a.moving_time, 1932605, 600))
        den6 == 800000 + Mul6(e1, 189439) + Mul6(e2, 298956)
    IN  RoundTimes10(num6, den6)

\* hrPercent > 0.75, on average_heartrate / maxHR
sustained(a, mhr) == 4 * a.average_heartrate > 3 * mhr

\* A slip the claims below must catch: 3000 m itself taken as a long run.
estimateVO2max_from3000(a, mhr) ==
    IF ~a.has_heartrate \/ ~Truthy(a.average_heartrate) THEN Null
    ELSE IF ~Truthy(a.distance) \/ ~Truthy(a.moving_time) THEN Null
    ELSE IF a.distance >= 3000 /\ sustained(a, mhr) THEN vdot10(a)
    ELSE Null

\* A slip the claims below must catch: the effort not tested.
estimateVO2max_anyHeartRate(a, mhr) ==
    IF ~a.has_heartrate \/ ~Truthy(a.average_heartrate) THEN Null
    ELSE IF ~Truthy(a.distance) \/ ~Truthy(a.moving_time) THEN Null
    ELSE IF a.distance > 3000 THEN vdot10(a)
    ELSE Null

\* estimateVO2max(activity): the estimate in tenths, or Null
estimateVO2max(a, mhr) ==
    IF ~a.has_heartrate \/ ~Truthy(a.average_heartrate) THEN Null
    ELSE IF ~Truthy(a.distance) \/ ~Truthy(a.moving_time) THEN Null
    ELSE IF a.distance > 3000 /\ sustained(a, mhr) THEN vdot10(a)
    ELSE Null

\* The filter of generateVO2maxHistory
qualityRun(a, mhr) ==
    /\ a.has_heartrate /\ Truthy(a.average_heartrate)
    /\ Truthy(a.distance) /\ a.distance >= 3000
    /\ sustained(a, mhr)

\* A slip the claims below must catch: the sanity check left out.
sane_unchecked(vo2max10) == Truthy(vo2max10)

\* vo2max && vo2max > 30 && vo2max < 90
sane(vo2max10) == Truthy(vo2max10) /\ vo2max10 > 300 /\ vo2max10 < 900

\* The sample pushed for an activity.
vo2Sample(a, vo2max10) ==
    [date |-> a.start_day, vo2max |-> vo2max10, distance |-> a.distance,
     activityName |-> a.name]

\* for (const activity of qualityRuns) ...
RECURSIVE vo2Loop(_, _)
vo2Loop(runs, mhr) ==
    IF runs = <<>> THEN <<>>
    ELSE LET a == Head(runs)
             vo2max10 == estimateVO2max(a, mhr)
         IN  (IF sane(vo2max10) THEN <<vo2Sample(a, vo2max10)>> ELSE <<>>)
                 \o vo2Loop(Tail(runs), mhr)

generateVO2maxHistory(acts, mhr) ==
    LET keep(a) == qualityRun(a, mhr)
    IN  vo2Loop(sortByStart(SelectSeq(acts, keep)), mhr)

-----------------------------------------------------------------------------
(* Power curve *)

\* const durations = [5, 10, 30, 60, 120, 300, 600, 1200, 1800, 3600]
durations == <<5, 10, 30, 60, 120, 300, 600, 1200, 1800, 3600>>

Dist(x, y) == IF x < y THEN y - x ELSE x - y

\* A slip the claims below must catch: within 50% of the target duration.
closeTo_half(a, duration) ==
    a.moving_time # Undefined /\ 2 * Dist(a.moving_time, duration) < duration

\* Math.abs(a.moving_time - duration) < duration * 0.2
closeTo(a, duration) ==
    a.moving_time # Undefined /\ 5 * Dist(a.moving_time, duration) < duration

\* A slip the claims below must catch: the weakest candidate kept.
RECURSIVE bestEffort_weakest(_, _)
bestEffort_weakest(best, rest) ==
    IF rest = <<>> THEN best
    ELSE bestEffort_weakest(IF Power(Head(rest)) < Power(best) THEN Head(rest) ELSE best, Tail(rest))

\* candidates.reduce((best, current) => currentPower > bestPower ? current : best),
\* best being the first candidate at the start
RECURSIVE bestEffort(_, _)
bestEffort(best, rest) ==
    IF rest = <<>> THEN best
    ELSE bestEffort(IF Power(Head(rest)) > Power(best) THEN Head(rest) ELSE best, Tail(rest))

\* The point pushed for a duration.
curvePoint(duration, best) ==
    [duration |-> duration, power |-> Power(best), date |-> best.start_day,
     activityName |-> best.name]

\* for (const duration of durations) ...
RECURSIVE curveLoop(_, _)
curveLoop(ds, withPower) ==
    IF ds = <<>> THEN <<>>
    ELSE LET near(a) == closeTo(a, Head(ds))
             candidates == SelectSeq(withPower, near)
         IN  (IF Len(candidates) > 0
              THEN <<curvePoint(Head(ds), bestEffort(Head(candidates), Tail(candidates)))>>
              ELSE <<>>)
                 \o curveLoop(Tail(ds), withPower)

\* curve.find(c => c.duration >= lo && c.duration <= hi): the first such point, or undefined
RECURSIVE find(_, _, _)
find(curve, lo, hi) ==
    IF curve = <<>> THEN NoObject
    ELSE IF Head(curve).duration >= lo /\ Head(curve).duration <= hi THEN Head(curve)
    ELSE find(Tail(curve), lo, hi)

\* A slip the claims below must catch: W' taken from the rounded CP.
twoParameter_fromRounded(fiveMin, twentyMin) ==
    LET n == fiveMin.power * fiveMin.duration - twentyMin.power * twentyMin.duration
        d == fiveMin.duration - twentyMin.duration
    IN  [cp |-> Round(n, d),
         wPrime |-> (fiveMin.power - Round(n, d)) * fiveMin.duration]

\* The result for the two anchor points.
twoParameter(fiveMin, twentyMin) ==
    LET n == fiveMin.power * fiveMin.duration - twentyMin.power * twentyMin.duration
        d == fiveMin.duration - twentyMin.duration
    IN  [cp |-> Round(n, d),
         wPrime |-> Round((fiveMin.power * d - n) * fiveMin.duration, d)]

calculateCriticalPower(curve) ==
    IF Len(curve) < 3 THEN NoObject
    ELSE LET fiveMin == find(curve, 250, 350)
             twentyMin == find(curve, 1000, 1400)
         IN  IF fiveMin = NoObject \/ twentyMin = NoObject THEN NoObject
             ELSE twoParameter(fiveMin, twentyMin)

analyzePowerCurve(acts) ==
    LET hasPower(a) == Truthy(a.average_watts)
        activitiesWithPower == SelectSeq(acts, hasPower)
    IN  IF Len(activitiesWithPower) = 0 THEN NoObject
        ELSE LET curve == curveLoop(durations, activitiesWithPower)
             IN  [curve |-> curve, criticalPower |-> calculateCriticalPower(curve)]

-----------------------------------------------------------------------------
(* Race time prediction *)

\* The decimal digits of n >= 0: (n).toString()
RECURSIVE toString(_)
toString(n) ==
    LET digit == <<"0", "1", "2", "3", "4", "5", "6", "7", "8", "9">>[(n % 10) + 1]
    IN  IF n < 10 THEN <<digit>> ELSE toString(n \div 10) \o <<digit>>

\* A slip the claims below must catch: no padding.
padStart2_none(s) == s

\* s.padStart(2, '0')
padStart2(s) == IF Len(s) = 0 THEN <<"0", "0">> ELSE IF Len(s) = 1 THEN <<"0">> \o s ELSE s

\* timeMinutes as the fraction num / den, for a distance in metres and a
\* vo2max that is the mean of count values adding up to sum10 tenths (> 0):
\* distanceKm * 1000 / velocity = (0.52 * distanceKm + 911.29) / vo2max
timeMinutes(distanceM, sum10, count) ==
    [num |-> (13 * distanceM + 22782250) * count, den |-> 2500 * sum10]

\* predictTime(distanceKm, vo2max)
predictTime(distanceM, sum10, count) ==
    LET t == timeMinutes(distanceM, sum10, count)
        whole == t.num \div t.den
        hours == whole \div 60
        minutes == whole % 60
        seconds == ((t.num % t.den) * 60) \div t.den
    IN  IF hours > 0
        THEN toString(hours) \o <<":">> \o padStart2(toString(minutes)) \o <<":">> \o padStart2(toString(seconds))
        ELSE toString(minutes) \o <<":">> \o padStart2(toString(seconds))

\* recentVO2.reduce((a, b) => a + b), in tenths
RECURSIVE sumVO2(_)
sumVO2(history) == IF history = <<>> THEN 0 ELSE Head(history).vo2max + sumVO2(Tail(history))

\* A slip the claims below must catch: the oldest sample as the fallback.
fallbackSample_oldest(vo2History) == vo2History[1]

\* vo2History[vo2History.length - 1]
fallbackSample(vo2History) == vo2History[Len(vo2History)]

\* new Date(h.date): a date without a time is read as 00:00 UTC.
parseDate(date) == date * 24

RaceLabels == {"5k", "10k", "Half Marathon", "Marathon"}

\* The distance predictRaceTimes passes for a label, in metres.
raceDistance(label) ==
    CASE label = "5k" -> 5000
      [] label = "10k" -> 10000
      [] label = "Half Marathon" -> 21097
      [] label = "Marathon" -> 42195

\* predictRaceTimes(): NoObject for null, else currentVO2max in tenths and
\* the four formatted times.
predictRaceTimes(acts, mhr, today, z) ==
    LET vo2History == generateVO2maxHistory(acts, mhr)
        thirtyDaysAgo == setDatePlus(z, today, -30)
        recent(h) == parseDate(h.date) >= thirtyDaysAgo
        recentVO2 == SelectSeq(vo2History, recent)
        sum10 == IF Len(recentVO2) > 0 THEN sumVO2(recentVO2) ELSE fallbackSample(vo2History).vo2max
        count == IF Len(recentVO2) > 0 THEN Len(recentVO2) ELSE 1
    IN  IF Len(vo2History) = 0 THEN NoObject
        ELSE [currentVO2max |-> Round(sum10, count),
              predictions |-> [label \in RaceLabels |-> predictTime(raceDistance(label), sum10, count)]]

-----------------------------------------------------------------------------
(* Interval detection, workout quality, daily TSS *)

UpperCase == <<"A", "B", "C", "D", "E", "F", "G", "H", "I", "J", "K", "L", "M",
               "N", "O", "P", "Q", "R", "S", "T", "U", "V", "W", "X", "Y", "Z">>
LowerCase == <<"a", "b", "c", "d", "e", "f", "g", "h", "i", "j", "k", "l", "m",
               "n", "o", "p", "q", "r", "s", "t", "u", "v", "w", "x", "y", "z">>

\* An absent name (undefined in place of a string): no sequence of characters.
NoString == <<"undefined">>

\* name.toLowerCase()
toLowerCase(name) ==
    [i \in DOMAIN name |->
        IF \E k \in DOMAIN UpperCase : UpperCase[k] = name[i]
        THEN LowerCase[CHOOSE k \in DOMAIN UpperCase : UpperCase[k] = name[i]]
        ELSE name[i]]

\* name.includes(part)
includes(name, part) ==
    \E i \in 0..(Len(name) - Len(part)) : SubSeq(name, i + 1, i + Len(part)) = part

\* A slip the claims below must catch: the x of "5x500m" taken without its space.
intervalName_anyX(n) ==
    LET name == toLowerCase(n)
    IN  \/ includes(name, <<"i", "n", "t", "e", "r", "v", "a", "l">>)
        \/ includes(name, <<"x">>)
        \/ includes(name, <<"t", "e", "m", "p", "o">>)
        \/ includes(name, <<"f", "a", "r", "t", "l", "e", "k">>)
        \/ includes(name, <<"r", "e", "p">>)

\* The filter of detectIntervals, on a name that is present.
intervalName(n) ==
    LET name == toLowerCase(n)
    IN  \/ includes(name, <<"i", "n", "t", "e", "r", "v", "a", "l">>)
        \/ includes(name, <<"x", " ">>)
        \/ includes(name, <<"t", "e", "m", "p", "o">>)
        \/ includes(name, <<"f", "a", "r", "t", "l", "e", "k">>)
        \/ includes(name, <<"r", "e", "p">>)

\* tss / (activity.moving_time / 3600) > limit
tssPerHourOver(tss, mt, limit) ==
    IF tss = NaN \/ mt = Undefined THEN FALSE
    ELSE IF mt = 0 THEN tss > 0
    ELSE tss * 3600 > limit * mt

\* A slip the claims below must catch: a base score of 6 and no clamp.
calculateWorkoutQuality_unclamped(a, tss, mhr, f) ==
    6 + (IF tssPerHourOver(tss, a.moving_time, 80) THEN 2
         ELSE IF tssPerHourOver(tss, a.moving_time, 60) THEN 1 ELSE 0)
      + (IF a.has_heartrate /\ a.average_heartrate # Undefined
            /\ 20 * a.average_heartrate > 17 * mhr THEN 2
         ELSE IF a.has_heartrate /\ a.average_heartrate # Undefined
            /\ 4 * a.average_heartrate > 3 * mhr THEN 1 ELSE 0)
      + (IF Truthy(a.average_watts) /\ Truthy(f) /\ 10 * a.average_watts > 9 * f THEN 1 ELSE 0)

\* calculateWorkoutQuality(activity, tss)
calculateWorkoutQuality(a, tss, mhr, f) ==
    LET tssScore == IF tssPerHourOver(tss, a.moving_time, 80) THEN 2
                    ELSE IF tssPerHourOver(tss, a.moving_time, 60) THEN 1
                    ELSE 0
        \* hrPercent > 0.85, > 0.75; an absent average_heartrate gives NaN
        hrKnown == a.has_heartrate /\ a.average_heartrate # Undefined
        hrScore == IF hrKnown /\ 20 * a.average_heartrate > 17 * mhr THEN 2
                   ELSE IF hrKnown /\ 4 * a.average_heartrate > 3 * mhr THEN 1
                   ELSE 0
        \* powerPercent > 0.9
        powerScore == IF Truthy(a.average_watts) /\ Truthy(f) /\ 10 * a.average_watts > 9 * f
                      THEN 1 ELSE 0
        score == 5 + tssScore + hrScore + powerScore
        atLeast0 == IF score < 0 THEN 0 ELSE score
    IN  IF atLeast0 > 10 THEN 10 ELSE atLeast0

\* (workout.distance / 1000).toFixed(2), for a distance in whole metres
toFixed2(distance) ==
    IF distance = Undefined THEN <<"N", "a", "N">>
    ELSE LET hundredths == Round(distance, 10)
         IN  toString(hundredths \div 100) \o <<".">> \o padStart2(toString(hundredths % 100))

\* `${Math.floor(paceMinPerKm)}:${Math.round((paceMinPerKm % 1) * 60).toString().padStart(2, '0')}`
\* with paceMinPerKm = (moving_time / 60) / (distance / 1000) = 50 * moving_time / (3 * distance)
avgPace(a) ==
    IF a.moving_time = Undefined \/ a.distance = Undefined THEN <<"N", "a", "N">> \o <<":">> \o <<"N", "a", "N">>
    ELSE IF a.distance = 0
         THEN IF a.moving_time = 0 THEN <<"N", "a", "N">> \o <<":">> \o <<"N", "a", "N">>
              ELSE <<"I", "n", "f", "i", "n", "i", "t", "y">> \o <<":">> \o <<"N", "a", "N">>
    ELSE LET n == 50 * a.moving_time
             d == 3 * a.distance
         IN  toString(n \div d) \o <<":">> \o padStart2(toString(Round((n % d) * 60, d)))

\* The entry detectIntervals makes of a workout.
intervalEntry(a, f, mhr, rhr) ==
    LET tss == calculateTSS(a, f, mhr, rhr)
    IN  [date |-> a.start_day,
         name |-> a.name,
         distance |-> toFixed2(a.distance),
         avgPace |-> avgPace(a),
         avgHR |-> IF Truthy(a.average_heartrate) THEN a.average_heartrate ELSE Null,
         avgPower |-> IF Truthy(a.average_watts) THEN a.average_watts ELSE Null,
         tss |-> tss,
         quality |-> calculateWorkoutQuality(a, tss, mhr, f)]

\* A slip the claims below must catch: the entries sorted oldest first.
RECURSIVE insertByDate_ascending(_, _)
insertByDate_ascending(e, sorted) ==
    IF sorted = <<>> THEN <<e>>
    ELSE IF parseDate(Head(sorted).date) > parseDate(e.date) THEN <<e>> \o sorted
    ELSE <<Head(sorted)>> \o insertByDate_ascending(e, Tail(sorted))

\* .sort((a, b) => new Date(b.date) - new Date(a.date)): latest first, entries
\* of one date in their order of arrival.
RECURSIVE insertByDate(_, _)
insertByDate(e, sorted) ==
    IF sorted = <<>> THEN <<e>>
    ELSE IF parseDate(Head(sorted).date) < parseDate(e.date) THEN <<e>> \o sorted
    ELSE <<Head(sorted)>> \o insertByDate(e, Tail(sorted))

RECURSIVE sortByDate(_)
sortByDate(entries) ==
    IF entries = <<>> THEN <<>>
    ELSE insertByDate(entries[Len(entries)], sortByDate(SubSeq(entries, 1, Len(entries) - 1)))

\* detectIntervals raises a TypeError: a.name.toLowerCase() on an absent name,
\* workout.start_date_local.split('T') on an absent start of a workout kept.
detectIntervalsRaises(acts) ==
    \/ \E i \in DOMAIN acts : acts[i].name = NoString
    \/ \E i \in DOMAIN acts : intervalName(acts[i].name) /\ acts[i].start_day = Undefined

\* detectIntervals(), when it returns
detectIntervals(acts, f, mhr, rhr) ==
    LET keep(a) == intervalName(a.name)
        intervalWorkouts == SelectSeq(acts, keep)
    IN  sortByDate([i \in DOMAIN intervalWorkouts |-> intervalEntry(intervalWorkouts[i], f, mhr, rhr)])

\* getDailyTSS raises a TypeError: activity.start_date_local.split('T') on an absent start.
getDailyTSSRaises(acts) == \E i \in DOMAIN acts : acts[i].start_day = Undefined

\* dailyData[date] after the loop over the activities
RECURSIVE dailySum(_, _, _, _, _)
dailySum(acts, date, f, mhr, rhr) ==
    IF acts = <<>> THEN 0
    ELSE LET a == acts[Len(acts)]
             before == dailySum(SubSeq(acts, 1, Len(acts) - 1), date, f, mhr, rhr)
             \* if (!dailyData[date]) dailyData[date] = 0: a NaN sum starts again at 0
             kept == IF before = NaN THEN 0 ELSE before
         IN  IF a.start_day = date THEN Plus(kept, calculateTSS(a, f, mhr, rhr)) ELSE before

\* getDailyTSS(), when it returns: the object dailyData, a function of its keys
getDailyTSS(acts, f, mhr, rhr) ==
    [date \in {acts[i].start_day : i \in DOMAIN acts} |-> dailySum(acts, date, f, mhr, rhr)]

-----------------------------------------------------------------------------
(* The page script: gallery, modal viewer, keyboard, sidebar, theme *)

\* updateModalNavigation(): the display of the previous and next buttons
updateModalNavigation(p) ==
    [p EXCEPT !.navDisplay = IF p.images <= 1 THEN "none" ELSE "flex"]

\* openModal(imageSrc); the source shown is that of the current image
openModal(p) ==
    updateModalNavigation([p EXCEPT !.modalSrc = p.currentImageIndex,
                                    !.modalActive = TRUE,
                                    !.noScroll = TRUE,
                                    !.isModalOpen = TRUE])

\* closeModal()
closeModal(p) ==
    [p EXCEPT !.modalActive = FALSE, !.noScroll = FALSE, !.isModalOpen = FALSE]

\* A slip the claims below must catch: no wrap at the first image.
showPreviousImage_noWrap(p) ==
    IF p.images = 0 THEN p
    ELSE LET index == p.currentImageIndex - 1
         IN  updateModalNavigation([p EXCEPT !.currentImageIndex = index, !.modalSrc = index])

\* showPreviousImage()
showPreviousImage(p) ==
    IF p.images = 0 THEN p
    ELSE LET index == (p.currentImageIndex - 1 + p.images) % p.images
         IN  updateModalNavigation([p EXCEPT !.currentImageIndex = index, !.modalSrc = index])

\* showNextImage()
showNextImage(p) ==
    IF p.images = 0 THEN p
    ELSE LET index == (p.currentImageIndex + 1) % p.images
         IN  updateModalNavigation([p EXCEPT !.currentImageIndex = index, !.modalSrc = index])

\* openSidebar()
openSidebar(p) ==
    [p EXCEPT !.sidebarActive = TRUE, !.menuToggleActive = TRUE, !.noScroll = TRUE]

\* closeSidebar()
closeSidebar(p) ==
    [p EXCEPT !.sidebarActive = FALSE, !.menuToggleActive = FALSE, !.noScroll = FALSE]

\* toggleSidebar()
toggleSidebar(p) == IF p.sidebarActive THEN closeSidebar(p) ELSE openSidebar(p)

\* The click listener of the document, for a click that reaches it from a
\* target inside or outside the sidebar (and outside the menu toggle).
documentClick(p, inSidebar) ==
    IF p.sidebarActive /\ ~inSidebar THEN closeSidebar(p) ELSE p

\* A slip the claims below must catch: the keys handled whether or not the
\* modal is open.
modalKeydown_always(p, key) ==
    CASE key = "Escape" -> closeModal(p)
      [] key = "ArrowLeft" -> showPreviousImage(p)
      [] key = "ArrowRight" -> showNextImage(p)
      [] OTHER -> p

\* The first keydown listener of the document: the modal's keys.
modalKeydown(p, key) ==
    IF ~p.isModalOpen THEN p
    ELSE CASE key = "Escape" -> closeModal(p)
           [] key = "ArrowLeft" -> showPreviousImage(p)
           [] key = "ArrowRight" -> showNextImage(p)
           [] OTHER -> p

\* The second keydown listener, registered when the page has a previous or
\* a next link: window.location.href = the link's.
postKeydown(p, key) ==
    IF ~(p.navPrevious \/ p.navNext) \/ p.isModalOpen THEN p
    ELSE CASE key = "ArrowLeft" /\ p.navPrevious -> [p EXCEPT !.location = "previous"]
           [] key = "ArrowRight" /\ p.navNext -> [p EXCEPT !.location = "next"]
           [] OTHER -> p

\* The third keydown listener: Escape closes the sidebar.
sidebarKeydown(p, key) ==
    IF key = "Escape" /\ p.sidebarActive THEN closeSidebar(p) ELSE p

\* setTheme(theme)
setTheme(p, theme) == [p EXCEPT !.theme = theme]

\* toggleTheme()
toggleTheme(p) ==
    LET newTheme == IF p.theme = "light" THEN "dark" ELSE "light"
    IN  [setTheme(p, newTheme) EXCEPT !.savedTheme = newTheme]

\* The state after DOMContentLoaded on a page with all the elements the
\* script looks up, for a number of images, the links of the post, the
\* saved theme ("" for none) and the system's preference.
loaded(images, navPrevious, navNext, savedTheme, prefersDark) ==
    [images |-> images, currentImageIndex |-> 0, isModalOpen |-> FALSE,
     modalActive |-> FALSE, modalSrc |-> Undefined, navDisplay |-> "flex",
     sidebarActive |-> FALSE, menuToggleActive |-> FALSE, noScroll |-> FALSE,
     navPrevious |-> navPrevious, navNext |-> navNext, location |-> "here",
     theme |-> IF savedTheme # "" THEN savedTheme ELSE IF prefersDark THEN "dark" ELSE "light",
     savedTheme |-> savedTheme, prefersDark |-> prefersDark]

-----------------------------------------------------------------------------
(* The charts script *)

\* initializeStravaCharts(data) with data: the charts are made and stored,
\* and one more observer of data-theme is registered.
initializeStravaCharts(c) ==
    [c EXCEPT !.initialized = c.initialized + 1, !.observers = c.observers + 1]

\* The callbacks of n observers run for one change of data-theme: each
\* destroys the stored charts and calls initializeStravaCharts.
RECURSIVE observersRun(_, _)
observersRun(c, n) ==
    IF n = 0 THEN c
    ELSE observersRun(initializeStravaCharts([c EXCEPT !.destroyed = c.destroyed + 1,
                                                       !.calls = c.calls + 1]),
                      n - 1)

\* document.documentElement.setAttribute('data-theme', theme) as the charts
\* script sees it: the observers registered before the change are notified.
themeChanged(c) ==
    observersRun([c EXCEPT !.calls = 0, !.changes = c.changes + 1], c.observers)

\* The state once the page has called initializeStravaCharts(data); without
\* data the call returns before it registers anything.
chartsLoaded(hasData) ==
    LET none == [observers |-> 0, initialized |-> 0, destroyed |-> 0, calls |-> 0, changes |-> 0]
    IN  IF hasData THEN initializeStravaCharts(none) ELSE none

-----------------------------------------------------------------------------
(* calculateTSS on its own *)

TSSWatts == {Undefined, 0, 200, 250}
TSSHeartRates == {Undefined, 0, 150, 160}
TSSDistances == {Undefined, 0, 5000, 10000}
TSSTimes == {Undefined, 0, 1500, 2400, 3600}

TSSInputs ==
    {Act("Run", 1, 7, mt, dist, hasHr, hr, w, Undefined) :
        mt \in TSSTimes, dist \in TSSDistances, hasHr \in BOOLEAN,
        hr \in TSSHeartRates, w \in TSSWatts}

\* Engines with the default FTP and with an FTP estimated from a 25-minute effort.
TSSEngines == {<<>>, <<Act("Tempo", 1, 7, 1500, 6000, FALSE, Undefined, 280, Undefined)>>}

InitTSS ==
    /\ \E acts \in TSSEngines : Construct(acts, 5)
    /\ now = 24
    /\ zone = UTC

CallCalculateTSS(a) ==
    /\ op' = "calculateTSS"
    /\ arg' = a
    /\ ret' = calculateTSS(a, ftp, maxHR, restingHR)
    /\ error' = "none"
    /\ UNCHANGED <<engine, now, zone, seen, page, charts>>

NextTSS == \E a \in TSSInputs : CallCalculateTSS(a)

SpecTSS == InitTSS /\ [][NextTSS]_vars

-----------------------------------------------------------------------------
(* calculateTSS on activities around the pace limits *)

\* 10 km in 45 and in 55 minutes are paces of exactly 4.5 and 5.5 min/km,
\* 5 km in 22:30 and in 27:30 as well.
PaceTimes == {Undefined, 0, 1350, 1650, 2400, 2699, 2700, 3299, 3300, 3600}
PaceDistances == {Undefined, 0, 5000, 10000}
PaceWatts == {Undefined, 0, 200}
PaceHeartRates == {Undefined, 0, 150}

PaceInputs ==
    {Act("Run", 1, 7, mt, dist, hasHr, hr, w, Undefined) :
        mt \in PaceTimes, dist \in PaceDistances, hasHr \in BOOLEAN,
        hr \in PaceHeartRates, w \in PaceWatts}

NextPace == \E a \in PaceInputs : CallCalculateTSS(a)

SpecPace == InitTSS /\ [][NextPace]_vars

-----------------------------------------------------------------------------
(* generateTrainingLoadHistory *)

MaxLoadActs == 2
MaxDaysBack == 2

\* The sequences over S of length at most n.
SeqsUpTo(S, n) == UNION {[1..k -> S] : k \in 0..n}

\* Host zones: no offset; Brussels across the change to summer time and
\* across the change back (on local day 9); New York, no change in reach.
Brussels == [before |-> 1, after |-> 2, day |-> 9, hour |-> 2]
BrusselsAutumn == [before |-> 2, after |-> 1, day |-> 9, hour |-> 3]
NewYork == [before |-> -5, after |-> -5, day |-> 0, hour |-> 0]
Zones == {UTC, Brussels, BrusselsAutumn, NewYork}

\* The local day and hours of the call.
LoadNow == {10 * 24 + h : h \in {0, 1, 2, 12, 23}}

\* One hour at 250 W, and 40 minutes at 160 bpm, started on days 8 to 10.
LoadActs ==
    {Act("Run", d, h, 3600, 10000, FALSE, Undefined, 250, Undefined) : d \in 8..10, h \in {7, 23}}
    \cup {Act("Run", d, h, 2400, 10000, TRUE, 160, Undefined, Undefined) : d \in 8..10, h \in {7, 23}}

InitLoad ==
    /\ \E acts \in SeqsUpTo(LoadActs, MaxLoadActs) : Construct(acts, 5)
    /\ zone \in Zones
    /\ \E l \in LoadNow : now = UTCOfLocal(zone, l)

CallGenerateTrainingLoadHistory(daysBack) ==
    /\ op' = "generateTrainingLoadHistory"
    /\ arg' = daysBack
    /\ ret' = generateTrainingLoadHistory(daysBack, activities, now, zone, ftp, maxHR, restingHR)
    /\ error' = "none"
    /\ UNCHANGED <<engine, now, zone, seen, page, charts>>

NextLoad == \E daysBack \in 0..MaxDaysBack : CallGenerateTrainingLoadHistory(daysBack)

SpecLoad == InitLoad /\ [][NextLoad]_vars

-----------------------------------------------------------------------------
(* Two engines of one athlete, asked for the same history at the same time *)

MaxWindowActs == 2

\* A ride inside the window; a 25-minute effort, a run with heart rate and
\* a late-evening run before it.
WindowActs ==
    {Act("Ride", 9, 7, 3600, 30000, FALSE, Undefined, 250, Undefined),
     Act("Test", 1, 7, 1500, 10000, FALSE, Undefined, 280, Undefined),
     Act("Run", 2, 7, 2400, 10000, TRUE, 160, Undefined, Undefined),
     Act("Late run", 7, 23, 2400, 10000, TRUE, 160, Undefined, Undefined)}

InitWindow ==
    /\ \E acts \in SeqsUpTo(WindowActs, MaxWindowActs) : Construct(acts, 5)
    /\ zone \in {UTC, Brussels}
    /\ now = UTCOfLocal(zone, 10 * 24 + 12)

\* new StravaMetrics(...) for the same athlete with another list of
\* activities, once the first engine has answered; seen keeps the first
\* engine and its answer.
NewEngine(acts) ==
    /\ seen = NoObject
    /\ op = "generateTrainingLoadHistory"
    /\ seen' = [op |-> op, arg |-> arg, ret |-> ret, activities |-> activities, ftp |-> ftp]
    /\ activities' = acts
    /\ ftp' = estimateFTP(acts)
    /\ op' = "new"
    /\ arg' = Undefined
    /\ ret' = Undefined
    /\ error' = "none"
    /\ UNCHANGED <<yearsActive, maxHR, thresholdHR, restingHR, now, zone, page, charts>>

NextWindow ==
    \/ \E daysBack \in 0..MaxDaysBack : CallGenerateTrainingLoadHistory(daysBack)
    \/ \E acts \in SeqsUpTo(WindowActs, MaxWindowActs) : NewEngine(acts)

SpecWindow == InitWindow /\ [][NextWindow]_vars

-----------------------------------------------------------------------------
(* estimateVO2max and generateVO2maxHistory *)

MaxVO2Acts == 2

\* Runs of an athlete with maxHR 188: in the accepted range, exactly 3000 m,
\* too slow and too fast for the range, at exactly 75% of maxHR, and without
\* heart rate or distance.
VO2Acts ==
    {Act("Steady 10k", 3, 7, 2400, 10000, TRUE, 160, Undefined, Undefined),
     Act("Track 3000", 2, 18, 720, 3000, TRUE, 160, Undefined, Undefined),
     Act("Jog", 1, 7, 2400, 3500, TRUE, 160, Undefined, Undefined),
     Act("Ride", 2, 7, 3600, 30000, TRUE, 160, Undefined, Undefined),
     Act("Easy 10k", 1, 18, 2400, 10000, TRUE, 141, Undefined, Undefined),
     Act("No strap", 3, 18, 2400, 10000, FALSE, Undefined, Undefined, Undefined),
     Act("Treadmill", 2, 7, 2400, Undefined, TRUE, 160, Undefined, Undefined),
     Act("Tempo 5k", 1, 7, 1500, 5000, TRUE, 150, Undefined, Undefined)}

InitVO2 ==
    /\ \E acts \in SeqsUpTo(VO2Acts, MaxVO2Acts) : Construct(acts, 7)
    /\ now = 24
    /\ zone = UTC

CallEstimateVO2max(a) ==
    /\ op' = "estimateVO2max"
    /\ arg' = a
    /\ ret' = estimateVO2max(a, maxHR)
    /\ error' = "none"
    /\ UNCHANGED <<engine, now, zone, seen, page, charts>>

CallGenerateVO2maxHistory ==
    /\ op' = "generateVO2maxHistory"
    /\ arg' = Undefined
    /\ ret' = generateVO2maxHistory(activities, maxHR)
    /\ error' = "none"
    /\ UNCHANGED <<engine, now, zone, seen, page, charts>>

NextVO2 ==
    \/ \E a \in VO2Acts : CallEstimateVO2max(a)
    \/ CallGenerateVO2maxHistory

SpecVO2 == InitVO2 /\ [][NextVO2]_vars

-----------------------------------------------------------------------------
(* analyzePowerCurve *)

MaxPowerActs == 3

\* Efforts around the 1-, 5-, 20- and 30-minute targets: inside a bucket,
\* exactly 20% off a target (360 s, 1440 s), with and without weighted
\* power, without power.
PowerActs ==
    {Act("Sprint", 1, 7, 60, 400, FALSE, Undefined, 400, Undefined),
     Act("Hill", 2, 7, 245, 1200, FALSE, Undefined, 320, Undefined),
     Act("5 min", 3, 7, 300, 1500, FALSE, Undefined, 300, 310),
     Act("Edge", 4, 7, 360, 1700, FALSE, Undefined, 330, Undefined),
     Act("20 min", 5, 7, 1200, 5000, FALSE, Undefined, 250, 260),
     Act("Tempo", 6, 7, 1300, 5200, FALSE, Undefined, 270, 0),
     Act("No power", 7, 7, 300, 1400, FALSE, Undefined, Undefined, Undefined),
     Act("Zero", 8, 7, 300, 1400, FALSE, Undefined, 0, 200),
     Act("Long", 9, 7, 1440, 6000, FALSE, Undefined, 240, Undefined),
     Act("Half hour", 10, 7, 1800, 7000, FALSE, Undefined, 230, Undefined)}

InitPower ==
    /\ \E acts \in SeqsUpTo(PowerActs, MaxPowerActs) : Construct(acts, 5)
    /\ now = 24
    /\ zone = UTC

CallAnalyzePowerCurve ==
    /\ op' = "analyzePowerCurve"
    /\ arg' = Undefined
    /\ ret' = analyzePowerCurve(activities)
    /\ error' = "none"
    /\ UNCHANGED <<engine, now, zone, seen, page, charts>>

NextPower == CallAnalyzePowerCurve

SpecPower == InitPower /\ [][NextPower]_vars

-----------------------------------------------------------------------------
(* calculateCriticalPower on its own *)

\* Curves: for each of these durations no point or a point of one of two powers.
CurveDurations == <<60, 300, 600, 1200, 1800>>
CurvePowers == {250, 300}

RECURSIVE CurvesOver(_)
CurvesOver(ds) ==
    IF ds = <<>> THEN {<<>>}
    ELSE LET rest == CurvesOver(Tail(ds))
         IN  rest \cup {<<[duration |-> Head(ds), power |-> w, date |-> 1, activityName |-> "Run"]>> \o c :
                            w \in CurvePowers, c \in rest}

InitCP ==
    /\ Construct(<<>>, 5)
    /\ now = 24
    /\ zone = UTC

CallCalculateCriticalPower(curve) ==
    /\ op' = "calculateCriticalPower"
    /\ arg' = curve
    /\ ret' = calculateCriticalPower(curve)
    /\ error' = "none"
    /\ UNCHANGED <<engine, now, zone, seen, page, charts>>

NextCP == \E curve \in CurvesOver(CurveDurations) : CallCalculateCriticalPower(curve)

SpecCP == InitCP /\ [][NextCP]_vars

-----------------------------------------------------------------------------
(* predictTime on its own *)

\* The four race distances, in metres.
RaceDistances == {5000, 10000, 21097, 42195}

\* VO2max values in tenths: 0.7 to 89.6 in steps of 0.7, and 50.
PredictVO2 == {7 * k : k \in 1..128} \cup {500}

InitPredict ==
    /\ Construct(<<>>, 5)
    /\ now = 24
    /\ zone = UTC

CallPredictTime(distanceM, vo2max10) ==
    /\ op' = "predictTime"
    /\ arg' = <<distanceM, vo2max10>>
    /\ ret' = predictTime(distanceM, vo2max10, 1)
    /\ error' = "none"
    /\ UNCHANGED <<engine, now, zone, seen, page, charts>>

NextPredict == \E distanceM \in RaceDistances, vo2max10 \in PredictVO2 : CallPredictTime(distanceM, vo2max10)

SpecPredict == InitPredict /\ [][NextPredict]_vars

-----------------------------------------------------------------------------
(* predictRaceTimes *)

MaxRaceActs == 2

\* The day of the call; 30 days earlier is day 8, the eve of the change of
\* offset in Brussels.
RaceDay == 38

\* Runs of an athlete with maxHR 188 estimated at 51.9 and at 38.3, long
\* before the window, on its first days and on the day of the call, and a
\* run that gives no sample.
RaceActs ==
    {Act("Steady 10k", d, 7, 2400, 10000, TRUE, 160, Undefined, Undefined) : d \in {5, 8, 9, RaceDay}}
    \cup {Act("Tempo 5k", d, 18, 1500, 5000, TRUE, 150, Undefined, Undefined) : d \in {5, 8, 9, RaceDay}}
    \cup {Act("Jog", 9, 7, 2400, 3500, TRUE, 160, Undefined, Undefined)}

\* The call is made at midnight or at noon, UTC.
InitRace ==
    /\ \E acts \in SeqsUpTo(RaceActs, MaxRaceActs) : Construct(acts, 7)
    /\ now \in {RaceDay * 24, RaceDay * 24 + 12}
    /\ zone \in {UTC, Brussels}

CallPredictRaceTimes ==
    /\ op' = "predictRaceTimes"
    /\ arg' = Undefined
    /\ ret' = predictRaceTimes(activities, maxHR, now, zone)
    /\ error' = "none"
    /\ UNCHANGED <<engine, now, zone, seen, page, charts>>

NextRace == CallPredictRaceTimes

SpecRace == InitRace /\ [][NextRace]_vars

-----------------------------------------------------------------------------
(* detectIntervals and getDailyTSS *)

MaxIntervalActs == 3

\* Workouts named with and without the patterns, in either case, some on
\* the same day; one record without a name and one without a start.
IntervalActs ==
    {Act(<<"5", " ", "x", " ", "1", "0", "0", "0", "m">>, 3, 7, 1500, 5000, TRUE, 165, Undefined, Undefined),
     Act(<<"E", "a", "s", "y", " ", "r", "e", "c", "o", "v", "e", "r", "y", " ", "j", "o", "g">>, 1, 7, 2400, 6000, TRUE, 130, Undefined, Undefined),
     Act(<<"T", "e", "m", "p", "o", " ", "R", "u", "n">>, 4, 18, 1800, 6000, FALSE, Undefined, 260, Undefined),
     Act(<<"I", "N", "T", "E", "R", "V", "A", "L", "S">>, 1, 18, 3600, 12000, FALSE, Undefined, Undefined, Undefined),
     Act(<<"F", "a", "r", "t", "l", "e", "k">>, 5, 7, 2400, 8000, TRUE, 150, Undefined, Undefined),
     Act(<<"H", "i", "l", "l", " ", "r", "e", "p", "s">>, 2, 7, 1200, 4000, TRUE, 170, 240, Undefined),
     Act(<<"R", "e", "l", "a", "x", " ", "r", "u", "n">>, 6, 7, 2400, 6000, FALSE, Undefined, Undefined, Undefined),
     Act(<<"5", "x", "1", "0", "0", "0", "m">>, 5, 18, 1500, 5000, TRUE, 165, Undefined, Undefined),
     Act(NoString, 2, 18, 1800, 5000, FALSE, Undefined, Undefined, Undefined),
     Act(<<"T", "e", "m", "p", "o">>, Undefined, Undefined, 1800, 6000, FALSE, Undefined, Undefined, Undefined)}

InitIntervals ==
    /\ \E acts \in SeqsUpTo(IntervalActs, MaxIntervalActs) : Construct(acts, 5)
    /\ now = 10 * 24
    /\ zone = UTC

CallDetectIntervals ==
    /\ op' = "detectIntervals"
    /\ arg' = Undefined
    /\ IF detectIntervalsRaises(activities)
       THEN error' = "TypeError" /\ ret' = Undefined
       ELSE error' = "none" /\ ret' = detectIntervals(activities, ftp, maxHR, restingHR)
    /\ UNCHANGED <<engine, now, zone, seen, page, charts>>

CallGetDailyTSS ==
    /\ op' = "getDailyTSS"
    /\ arg' = Undefined
    /\ IF getDailyTSSRaises(activities)
       THEN error' = "TypeError" /\ ret' = Undefined
       ELSE error' = "none" /\ ret' = getDailyTSS(activities, ftp, maxHR, restingHR)
    /\ UNCHANGED <<engine, now, zone, seen, page, charts>>

NextIntervals ==
    \/ CallDetectIntervals
    \/ CallGetDailyTSS

SpecIntervals == InitIntervals /\ [][NextIntervals]_vars

-----------------------------------------------------------------------------
(* calculateWorkoutQuality on its own *)

QualityTimes == {Undefined, 0, 1800, 3600}
QualityHeartRates == {Undefined, 0, 150, 170, 250}
QualityWatts == {Undefined, 0, 200, 400, 100000}
QualityTSS == {NaN, -50, 0, 35, 70, 100, 500000}

QualityInputs ==
    {Act(<<"R", "u", "n">>, 1, 7, mt, 10000, hasHr, hr, w, Undefined) :
        mt \in QualityTimes, hasHr \in BOOLEAN, hr \in QualityHeartRates, w \in QualityWatts}

InitQuality ==
    /\ \E acts \in TSSEngines : Construct(acts, 5)
    /\ now = 24
    /\ zone = UTC

CallCalculateWorkoutQuality(a, tss) ==
    /\ op' = "calculateWorkoutQuality"
    /\ arg' = <<a, tss>>
    /\ ret' = calculateWorkoutQuality(a, tss, maxHR, ftp)
    /\ error' = "none"
    /\ UNCHANGED <<engine, now, zone, seen, page, charts>>

NextQuality == \E a \in QualityInputs, tss \in QualityTSS : CallCalculateWorkoutQuality(a, tss)

SpecQuality == InitQuality /\ [][NextQuality]_vars

-----------------------------------------------------------------------------
(* The engine over its lifetime: every derivation operation, in any order, *)
(* while the clock advances                                                *)

MaxEngineActs == 2

\* Two runs that give VO2max samples (51.9 on day 10, 38.3 on day 11), a
\* workout with power on the morning of day 11, and a record without a
\* name; lists need not be in order of start.
EngineActs ==
    {Act(<<"L", "o", "n", "g", " ", "r", "u", "n">>, 10, 7, 2400, 10000, TRUE, 160, Undefined, Undefined),
     Act(<<"T", "e", "m", "p", "o", " ", "R", "u", "n">>, 11, 18, 1500, 5000, TRUE, 150, Undefined, Undefined),
     Act(<<"H", "i", "l", "l", " ", "r", "e", "p", "s">>, 11, 7, 1500, 12000, FALSE, Undefined, 280, Undefined),
     Act(NoString, 10, 18, 1800, 5000, FALSE, Undefined, Undefined, Undefined)}

\* The readings of the clock: 23:00 on day 39, then midnight, then 01:00 on
\* day 40, when day 10 has left the 30-day window.
EngineClock == {39 * 24 + 23, 40 * 24, 40 * 24 + 1}

InitEngine ==
    /\ \E acts \in SeqsUpTo(EngineActs, MaxEngineActs) : Construct(acts, 7)
    /\ now = 39 * 24 + 23
    /\ zone = UTC

\* The bookkeeping of seen: the call just made may be kept when none is
\* kept yet; afterwards the latest call of another operation is noted.
Observe ==
    seen' \in IF seen = NoObject
              THEN {NoObject, [op |-> op', arg |-> arg', now |-> now, ret |-> ret',
                               error |-> error', other |-> ""]}
              ELSE {IF op' # seen.op THEN [seen EXCEPT !.other = op'] ELSE seen}

\* A slip the claims below must catch: this.activities sorted in place.
activitiesAfterSort_inPlace(acts) == sortByStart(acts)

\* this.activities after [...this.activities].sort(...): the copy is sorted.
activitiesAfterSort(acts) == acts

EngineCalculateTSS(a) ==
    /\ op' = "calculateTSS"
    /\ arg' = a
    /\ ret' = calculateTSS(a, ftp, maxHR, restingHR)
    /\ error' = "none"
    /\ Observe
    /\ UNCHANGED <<engine, now, zone, page, charts>>

EngineGenerateTrainingLoadHistory(daysBack) ==
    /\ op' = "generateTrainingLoadHistory"
    /\ arg' = daysBack
    /\ ret' = generateTrainingLoadHistory(daysBack, activities, now, zone, ftp, maxHR, restingHR)
    /\ error' = "none"
    /\ activities' = activitiesAfterSort(activities)
    /\ Observe
    /\ UNCHANGED <<yearsActive, maxHR, thresholdHR, restingHR, ftp, now, zone, page, charts>>

\* A slip the claims below must catch: only the samples of the 30 days
\* before the call are listed.
EngineGenerateVO2maxHistory_recentOnly ==
    /\ op' = "generateVO2maxHistory"
    /\ arg' = Undefined
    /\ ret' = LET recent(h) == parseDate(h.date) >= setDatePlus(zone, now, -30)
              IN  SelectSeq(generateVO2maxHistory(activities, maxHR), recent)
    /\ error' = "none"
    /\ Observe
    /\ UNCHANGED <<engine, now, zone, page, charts>>

EngineGenerateVO2maxHistory ==
    /\ op' = "generateVO2maxHistory"
    /\ arg' = Undefined
    /\ ret' = generateVO2maxHistory(activities, maxHR)
    /\ error' = "none"
    /\ Observe
    /\ UNCHANGED <<engine, now, zone, page, charts>>

EnginePredictRaceTimes ==
    /\ op' = "predictRaceTimes"
    /\ arg' = Undefined
    /\ ret' = predictRaceTimes(activities, maxHR, now, zone)
    /\ error' = "none"
    /\ Observe
    /\ UNCHANGED <<engine, now, zone, page, charts>>

EngineAnalyzePowerCurve ==
    /\ op' = "analyzePowerCurve"
    /\ arg' = Undefined
    /\ ret' = analyzePowerCurve(activities)
    /\ error' = "none"
    /\ Observe
    /\ UNCHANGED <<engine, now, zone, page, charts>>

EngineDetectIntervals ==
    /\ op' = "detectIntervals"
    /\ arg' = Undefined
    /\ IF detectIntervalsRaises(activities)
       THEN error' = "TypeError" /\ ret' = Undefined
       ELSE error' = "none" /\ ret' = detectIntervals(activities, ftp, maxHR, restingHR)
    /\ Observe
    /\ UNCHANGED <<engine, now, zone, page, charts>>

EngineGetDailyTSS ==
    /\ op' = "getDailyTSS"
    /\ arg' = Undefined
    /\ IF getDailyTSSRaises(activities)
       THEN error' = "TypeError" /\ ret' = Undefined
       ELSE error' = "none" /\ ret' = getDailyTSS(activities, ftp, maxHR, restingHR)
    /\ Observe
    /\ UNCHANGED <<engine, now, zone, page, charts>>

\* Time passes between two calls.
Tick ==
    /\ \E t \in EngineClock : t > now
    /\ now' = CHOOSE t \in EngineClock : t > now /\ \A u \in EngineClock : u > now => t <= u
    /\ UNCHANGED <<engine, zone, op, arg, ret, error, seen, page, charts>>

NextEngine ==
    \/ \E i \in DOMAIN activities : EngineCalculateTSS(activities[i])
    \/ EngineGenerateTrainingLoadHistory(1)
    \/ EngineGenerateVO2maxHistory
    \/ EnginePredictRaceTimes
    \/ EngineAnalyzePowerCurve
    \/ EngineDetectIntervals
    \/ EngineGetDailyTSS
    \/ Tick

SpecEngine == InitEngine /\ [][NextEngine]_vars

-----------------------------------------------------------------------------
(* estimateFTP on its own *)

MaxFTPActs == 2

\* Efforts of 20 to 30 minutes with and without weighted power, longer
\* rides, a ride one second short of 20 minutes, and records whose
\* average_watts is absent or 0.
FTPActs ==
    {Act("Ride", 1, 7, 1500, 10000, FALSE, Undefined, 250, 280),
     Act("Ride", 1, 7, 1800, 10000, FALSE, Undefined, 250, Undefined),
     Act("Ride", 1, 7, 1200, 10000, FALSE, Undefined, 300, Undefined),
     Act("Ride", 1, 7, 1500, 10000, FALSE, Undefined, 200, 330),
     Act("Ride", 1, 7, 3600, 30000, FALSE, Undefined, 250, 270),
     Act("Ride", 1, 7, 1801, 10000, FALSE, Undefined, 310, 320),
     Act("Ride", 1, 7, 1199, 10000, FALSE, Undefined, 400, Undefined),
     Act("Ride", 1, 7, 1500, 10000, FALSE, Undefined, Undefined, 300),
     Act("Ride", 1, 7, 1500, 10000, FALSE, Undefined, 0, Undefined)}

InitFTP ==
    /\ \E acts \in SeqsUpTo(FTPActs, MaxFTPActs) : Construct(acts, 5)
    /\ now = 24
    /\ zone = UTC

CallEstimateFTP ==
    /\ op' = "estimateFTP"
    /\ arg' = Undefined
    /\ ret' = estimateFTP(activities)
    /\ error' = "none"
    /\ UNCHANGED <<engine, now, zone, seen, page, charts>>

NextFTP == CallEstimateFTP

SpecFTP == InitFTP /\ [][NextFTP]_vars

-----------------------------------------------------------------------------
(* The page over its lifetime: one step is one event and every listener    *)
(* it reaches, in the order of registration and of bubbling                *)

MaxImages == 3
MaxThemeChanges == 3

Keys == {"Escape", "ArrowLeft", "ArrowRight", "Enter"}

\* No engine is studied on the page.
InitPage ==
    /\ activities = <<>>
    /\ yearsActive = 0
    /\ maxHR = 220 - calculateAge(0)
    /\ thresholdHR = Round((220 - calculateAge(0)) * 9, 10)
    /\ restingHR = RestingHR
    /\ ftp = estimateFTP(<<>>)
    /\ now = 24
    /\ zone = UTC
    /\ op = "DOMContentLoaded"
    /\ arg = ""
    /\ ret = Undefined
    /\ error = "none"
    /\ seen = NoObject
    /\ \E images \in 0..MaxImages, navPrevious \in BOOLEAN, navNext \in BOOLEAN, savedTheme \in {"", "dark"} :
           page = loaded(images, navPrevious, navNext, savedTheme, FALSE)
    /\ \E hasData \in BOOLEAN : charts = chartsLoaded(hasData)

\* An event of a kind on a target that leaves the page script in state p.
Event(kind, target, p) ==
    /\ page.location = "here"
    /\ op' = kind
    /\ arg' = target
    /\ page' = p
    /\ UNCHANGED <<engine, now, zone, ret, error, seen>>

\* A click on image i: its listener, then the document's.
ClickImage(i) ==
    /\ Event("click", "image", documentClick(openModal([page EXCEPT !.currentImageIndex = i]), FALSE))
    /\ UNCHANGED charts

\* A click on the grid item of image i or on its overlay: the item's
\* listener finds the image's index, then the document's listener runs.
ClickPhotoItem(i) ==
    /\ Event("click", "photo-item", documentClick(openModal([page EXCEPT !.currentImageIndex = i]), FALSE))
    /\ UNCHANGED charts

\* The buttons and the background of the modal can be clicked while the
\* modal is shown; the click goes on to the document.
ClickModalClose ==
    /\ page.modalActive
    /\ Event("click", "modal-close", documentClick(closeModal(page), FALSE))
    /\ UNCHANGED charts

ClickModalBackground ==
    /\ page.modalActive
    /\ Event("click", "modal", documentClick(closeModal(page), FALSE))
    /\ UNCHANGED charts

\* e.stopPropagation(): no other listener is reached.
ClickModalImage ==
    /\ page.modalActive
    /\ Event("click", "modal-image", page)
    /\ UNCHANGED charts

ClickModalPrev ==
    /\ page.modalActive /\ page.navDisplay = "flex"
    /\ Event("click", "modal-prev", documentClick(showPreviousImage(page), FALSE))
    /\ UNCHANGED charts

ClickModalNext ==
    /\ page.modalActive /\ page.navDisplay = "flex"
    /\ Event("click", "modal-next", documentClick(showNextImage(page), FALSE))
    /\ UNCHANGED charts

\* A key pressed: the three keydown listeners of the document in turn.
KeyDown(key) ==
    /\ Event("keydown", key, sidebarKeydown(postKeydown(modalKeydown(page, key), key), key))
    /\ UNCHANGED charts

\* e.stopPropagation(); toggleSidebar()
ClickMenuToggle ==
    /\ Event("click", "menu-toggle", toggleSidebar(page))
    /\ UNCHANGED charts

\* A click anywhere else, inside or outside the sidebar.
ClickElsewhere(inSidebar) ==
    /\ Event("click", IF inSidebar THEN "sidebar" ELSE "outside", documentClick(page, inSidebar))
    /\ UNCHANGED charts

\* A click on a link of the sidebar: the link's listener closes the sidebar
\* when the link has no target attribute; the link may lead to another page.
ClickSidebarLink(hasTarget, leaves) ==
    /\ hasTarget => ~leaves
    /\ LET p == IF hasTarget THEN page ELSE closeSidebar(page)
           q == documentClick(p, TRUE)
       IN  Event("click", "sidebar-link", IF leaves THEN [q EXCEPT !.location = "link"] ELSE q)
    /\ UNCHANGED charts

\* A click on a theme toggle, inside or outside the sidebar.
ClickThemeToggle(inSidebar) ==
    /\ charts.changes < MaxThemeChanges
    /\ Event("click", "theme-toggle", documentClick(toggleTheme(page), inSidebar))
    /\ charts' = themeChanged(charts)

\* The system's colour scheme changes: followed when no theme is saved.
SystemThemeChange ==
    /\ charts.changes < MaxThemeChanges
    /\ LET dark == ~page.prefersDark
           p == [page EXCEPT !.prefersDark = dark]
       IN  IF page.savedTheme = ""
           THEN /\ Event("change", "prefers-color-scheme", setTheme(p, IF dark THEN "dark" ELSE "light"))
                /\ charts' = themeChanged(charts)
           ELSE /\ Event("change", "prefers-color-scheme", p)
                /\ UNCHANGED charts

NextPage ==
    \/ \E i \in 0..(page.images - 1) : ClickImage(i)
    \/ \E i \in 0..(page.images - 1) : ClickPhotoItem(i)
    \/ ClickModalClose
    \/ ClickModalBackground
    \/ ClickModalImage
    \/ ClickModalPrev
    \/ ClickModalNext
    \/ \E key \in Keys : KeyDown(key)
    \/ ClickMenuToggle
    \/ \E inSidebar \in BOOLEAN : ClickElsewhere(inSidebar)
    \/ \E hasTarget \in BOOLEAN, leaves \in BOOLEAN : ClickSidebarLink(hasTarget, leaves)
    \/ \E inSidebar \in BOOLEAN : ClickThemeToggle(inSidebar)
    \/ SystemThemeChange

SpecPage == InitPage /\ [][NextPage]_vars

\* What the claims call a field that is set: present and not zero, as the
\* code's own tests (a.average_watts && ...) read it.
PowerSet(a) == a.average_watts \notin {Undefined, 0}
HeartRateSet(a) == a.has_heartrate /\ a.average_heartrate \notin {Undefined, 0}
PaceSet(a) == a.distance \notin {Undefined, 0} /\ a.moving_time \notin {Undefined, 0}

\* C1: calculateTSS tries power, heart rate, pace, zero in this order and the
\* first applicable branch decides: with average_watts set (FTP known) the
\* score is the power score whatever the heart-rate and distance fields hold;
\* without power, with has_heartrate and average_heartrate, it is the TRIMP
\* score whatever the distance holds; without both, with distance and
\* moving_time, it is the pace score; every other activity scores 0.
C1_BranchOrder ==
    op = "calculateTSS" =>
        /\ (PowerSet(arg) /\ ftp > 0) => ret = powerTSS(arg, ftp)
        /\ (~PowerSet(arg) /\ HeartRateSet(arg)) => ret = hrTSS(arg, maxHR, restingHR)
        /\ (~PowerSet(arg) /\ ~HeartRateSet(arg) /\ PaceSet(arg)) => ret = paceTSS(arg)
        /\ (~PowerSet(arg) /\ ~HeartRateSet(arg) /\ ~PaceSet(arg)) => ret = 0

\* An activity with power, heart rate and pace all set, whose three scores
\* differ, scored by power.
C1_Witness ==
    /\ op = "calculateTSS"
    /\ PowerSet(arg) /\ HeartRateSet(arg) /\ PaceSet(arg)
    /\ ret = powerTSS(arg, ftp)
    /\ ret # hrTSS(arg, maxHR, restingHR)
    /\ ret # paceTSS(arg)
    /\ hrTSS(arg, maxHR, restingHR) # paceTSS(arg)

\* C2: with average_watts set and FTP known, the score is exactly
\* round(moving_time / 3600 * (average_watts / FTP)^2 * 100): the integer r
\* with r - 1/2 <= x < r + 1/2; 3600 s at average_watts = FTP scores 100.
C2_PowerScore ==
    (op = "calculateTSS" /\ PowerSet(arg) /\ ftp > 0 /\ arg.moving_time # Undefined) =>
        LET n == arg.moving_time * arg.average_watts * arg.average_watts
            d == 36 * ftp * ftp
        IN  /\ (2 * ret - 1) * d <= 2 * n
            /\ 2 * n < (2 * ret + 1) * d
            /\ (arg.moving_time = 3600 /\ arg.average_watts = ftp) => ret = 100

\* One hour at FTP, heart rate recorded as well, scored 100.
C2_Witness ==
    /\ op = "calculateTSS"
    /\ arg.moving_time = 3600 /\ arg.average_watts = ftp
    /\ HeartRateSet(arg)
    /\ ret = 100

Abs(x) == IF x < 0 THEN -x ELSE x

\* How far a point's emitted tsb is from its emitted ctl minus its emitted atl, in tenths.
TSBGap(p) == Abs(p.tsb - (p.ctl - p.atl))

\* C3, as claimed: for every point generateTrainingLoadHistory emits, the
\* emitted tsb differs from the emitted ctl minus the emitted atl by at most
\* 0.05 (half a tenth).
C3_Within005 ==
    op = "generateTrainingLoadHistory" =>
        \A i \in DOMAIN ret : 2 * TSBGap(ret[i]) <= 1

\* C3, amended: for every point generateTrainingLoadHistory emits, the
\* emitted tsb differs from the emitted ctl minus the emitted atl by at most
\* 0.1, one step of the one-decimal rounding.
C3_WithinOneTenth ==
    op = "generateTrainingLoadHistory" =>
        \A i \in DOMAIN ret : TSBGap(ret[i]) <= 1

\* A history with a point whose tsb is a full tenth away from ctl - atl.
C3_Witness ==
    /\ op = "generateTrainingLoadHistory"
    /\ \E i \in DOMAIN ret : TSBGap(ret[i]) = 1 /\ ret[i].ctl > 0

\* C4: generateTrainingLoadHistory(daysBack) returns exactly daysBack + 1
\* points, whatever the current time and the host's time zone, and their
\* dates are consecutive calendar days in ascending order: none twice, none
\* skipped.
C4_OnePointPerDay ==
    op = "generateTrainingLoadHistory" =>
        /\ Len(ret) = arg + 1
        /\ \A i \in 1..(Len(ret) - 1) : ret[i + 1].date = ret[i].date + 1

\* C5: every sample generateVO2maxHistory returns has 30 < vo2max < 90, on
\* the emitted value (here in tenths).
C5_SamplesInRange ==
    op = "generateVO2maxHistory" =>
        \A j \in DOMAIN ret : ret[j].vo2max > 300 /\ ret[j].vo2max < 900

\* A history with a sample, from a list holding a sustained long run whose
\* estimate is outside the range.
C5_Witness ==
    /\ op = "generateVO2maxHistory"
    /\ Len(ret) > 0
    /\ \E i \in DOMAIN activities :
           /\ estimateVO2max(activities[i], maxHR) # Null
           /\ ~(estimateVO2max(activities[i], maxHR) \in 301..899)

\* Heart rate recorded and above 75% of maxHR.
SustainedEffort(a) ==
    a.has_heartrate /\ a.average_heartrate \notin {Undefined, 0} /\ 4 * a.average_heartrate > 3 * maxHR

HasDistanceAndTime(a) ==
    a.distance \notin {Undefined, 0} /\ a.moving_time \notin {Undefined, 0}

\* The activity's VDOT, rounded to a tenth, lies strictly between 30 and 90.
VdotAccepted(a) == vdot10(a) > 300 /\ vdot10(a) < 900

\* The history holds exactly one sample for each activity whose index is in Q.
SamplesAreExactly(Q) ==
    LET S(i) == [date |-> activities[i].start_day, vo2max |-> vdot10(activities[i]),
                 distance |-> activities[i].distance, activityName |-> activities[i].name]
    IN  /\ Len(ret) = Cardinality(Q)
        /\ \A j \in DOMAIN ret : \E i \in Q : ret[j] = S(i)
        /\ \A i \in Q : Cardinality({j \in DOMAIN ret : ret[j] = S(i)})
                            = Cardinality({k \in Q : S(k) = S(i)})

\* C6, as claimed: generateVO2maxHistory emits exactly one sample for each
\* activity with has_heartrate, distance >= 3000 m (3000 m included) and
\* average_heartrate / maxHR > 0.75 whose VDOT is in the accepted range, and
\* none for any other activity.
C6_From3000 ==
    op = "generateVO2maxHistory" =>
        SamplesAreExactly({i \in DOMAIN activities :
            /\ SustainedEffort(activities[i]) /\ HasDistanceAndTime(activities[i])
            /\ activities[i].distance >= 3000
            /\ VdotAccepted(activities[i])})

\* C6, amended: the same with distance > 3000 m: an activity of exactly
\* 3000 m yields no sample.
C6_Above3000 ==
    op = "generateVO2maxHistory" =>
        SamplesAreExactly({i \in DOMAIN activities :
            /\ SustainedEffort(activities[i]) /\ HasDistanceAndTime(activities[i])
            /\ activities[i].distance > 3000
            /\ VdotAccepted(activities[i])})

\* A history with a sample from a list that also holds a sustained run of
\* exactly 3000 m with an accepted VDOT.
C6_Witness ==
    /\ op = "generateVO2maxHistory"
    /\ Len(ret) = 1
    /\ \E i \in DOMAIN activities :
           /\ activities[i].distance = 3000
           /\ SustainedEffort(activities[i]) /\ VdotAccepted(activities[i])

\* C7, as claimed: estimateVO2max is null for every non-qualifying activity
\* and for every activity whose VDOT is not strictly between 30 and 90; it
\* is never a number outside that range.
C7_NullOutsideRange ==
    op = "estimateVO2max" =>
        /\ ~(SustainedEffort(arg) /\ HasDistanceAndTime(arg) /\ arg.distance > 3000) => ret = Null
        /\ (SustainedEffort(arg) /\ HasDistanceAndTime(arg) /\ ~VdotAccepted(arg)) => ret = Null
        /\ ret # Null => (ret > 300 /\ ret < 900)

\* C7, amended: estimateVO2max is null for every activity without recorded
\* heart rate, without distance or moving time, of 3000 m or less, or at 75%
\* of maxHR or less; for every other activity it is the VDOT rounded to one
\* decimal, whatever its value.
C7_NullWhenNotQualifying ==
    op = "estimateVO2max" =>
        IF SustainedEffort(arg) /\ HasDistanceAndTime(arg) /\ arg.distance > 3000
        THEN ret = vdot10(arg)
        ELSE ret = Null

\* An estimate returned as a number below 30.
C7_Witness ==
    /\ op = "estimateVO2max"
    /\ ret # Null
    /\ ret <= 300

\* The activities with power (average_watts present and not zero).
WithPower == {i \in DOMAIN activities : activities[i].average_watts \notin {Undefined, 0}}

\* Those whose moving_time is strictly less than 20% away from duration d.
Candidates(d) ==
    {i \in WithPower : activities[i].moving_time # Undefined
                           /\ 5 * Abs(activities[i].moving_time - d) < d}

\* C8, as claimed: analyzePowerCurve().criticalPower is null whenever no
\* activity with power has moving_time in the range 250 to 350 s, even if a
\* 20-minute effort and three or more curve points exist.
C8_NullWithout250To350 ==
    (op = "analyzePowerCurve" /\ ret # NoObject) =>
        ((\A i \in WithPower : ~(activities[i].moving_time \in 250..350))
            => ret.criticalPower = NoObject)

\* C8, amended: analyzePowerCurve().criticalPower is null whenever no
\* activity with power has moving_time strictly within 20% of 300 s (more
\* than 240 s and less than 360 s), even if a 20-minute effort and three or
\* more curve points exist.
C8_NullWithout5MinCandidate ==
    (op = "analyzePowerCurve" /\ ret # NoObject) =>
        ((\A i \in WithPower : ~(activities[i].moving_time \in 241..359))
            => ret.criticalPower = NoObject)

\* Three curve points, one of them the 20-minute bucket, none for 5 minutes,
\* and no critical power.
C8_Witness ==
    /\ op = "analyzePowerCurve" /\ ret # NoObject
    /\ Len(ret.curve) >= 3
    /\ \E j \in DOMAIN ret.curve : ret.curve[j].duration = 1200
    /\ \A i \in WithPower : ~(activities[i].moving_time \in 241..359)
    /\ ret.criticalPower = NoObject

\* The points of a curve in the 5-minute and the 20-minute range.
FiveMinPoints(curve) == {j \in DOMAIN curve : curve[j].duration \in 250..350}
TwentyMinPoints(curve) == {j \in DOMAIN curve : curve[j].duration \in 1000..1400}

\* r is the rational n / d (d > 0) rounded to the nearest integer, a half going up.
IsRounded(r, n, d) == (2 * r - 1) * d <= 2 * n /\ 2 * n < (2 * r + 1) * d

\* C9: calculateCriticalPower returns null if the curve has fewer than 3
\* points or lacks the 5-minute or the 20-minute bucket winner; otherwise it
\* returns CP = (P5 t5 - P20 t20) / (t5 - t20) and W' = (P5 - CP) t5 from
\* those two winners, each rounded to an integer.
C9_CriticalPower ==
    op = "calculateCriticalPower" =>
        IF Len(arg) < 3 \/ FiveMinPoints(arg) = {} \/ TwentyMinPoints(arg) = {}
        THEN ret = NoObject
        ELSE \E j \in FiveMinPoints(arg), k \in TwentyMinPoints(arg) :
                LET p5 == arg[j].power
                    t5 == arg[j].duration
                    p20 == arg[k].power
                    t20 == arg[k].duration
                IN  /\ ret # NoObject
                    \* CP = (p20 t20 - p5 t5) / (t20 - t5), and t20 > t5
                    /\ IsRounded(ret.cp, p20 * t20 - p5 * t5, t20 - t5)
                    \* W' = (p5 - CP) t5 = (p5 - p20) t20 t5 / (t20 - t5)
                    /\ IsRounded(ret.wPrime, (p5 - p20) * t20 * t5, t20 - t5)

\* A critical power whose CP, 700 / 3, is not a whole number before rounding.
C9_Witness ==
    /\ op = "calculateCriticalPower"
    /\ ret # NoObject
    /\ Len(arg) >= 3
    /\ ret.cp = 233 /\ ret.wPrime = 20000

\* C10: every point of the curve analyzePowerCurve returns belongs to one of
\* the ten target durations, each at most once and in ascending order; a
\* duration appears if and only if some activity with average_watts has
\* moving_time within 20% of it (strictly less than 20% away); and the
\* point's power is the maximum over those candidates of
\* weighted_average_watts (average_watts when weighted is absent or zero).
C10_Curve ==
    (op = "analyzePowerCurve" /\ ret # NoObject) =>
        LET curve == ret.curve
            Targets == {5, 10, 30, 60, 120, 300, 600, 1200, 1800, 3600}
            P(i) == IF activities[i].weighted_average_watts \notin {Undefined, 0}
                    THEN activities[i].weighted_average_watts
                    ELSE activities[i].average_watts
        IN  /\ \A j \in DOMAIN curve : curve[j].duration \in Targets
            /\ \A j \in 1..(Len(curve) - 1) : curve[j].duration < curve[j + 1].duration
            /\ \A d \in Targets :
                   (\E j \in DOMAIN curve : curve[j].duration = d) <=> Candidates(d) # {}
            /\ \A j \in DOMAIN curve :
                   /\ \E i \in Candidates(curve[j].duration) : P(i) = curve[j].power
                   /\ \A i \in Candidates(curve[j].duration) : P(i) <= curve[j].power

\* A curve of two points or more, one of them a bucket with candidates of
\* different power.
C10_Witness ==
    /\ op = "analyzePowerCurve" /\ ret # NoObject
    /\ Len(ret.curve) >= 2
    /\ \E j \in DOMAIN ret.curve :
           \E i, k \in Candidates(ret.curve[j].duration) :
               Power(activities[i]) < Power(activities[k])

-----------------------------------------------------------------------------
(* Claims on predictTime *)

Digits == {"0", "1", "2", "3", "4", "5", "6", "7", "8", "9"}

\* The number a sequence of digits writes.
RECURSIVE ValueOf(_)
ValueOf(ds) == IF ds = <<>> THEN 0
               ELSE 10 * ValueOf(SubSeq(ds, 1, Len(ds) - 1))
                    + (CHOOSE n \in 0..9 : toString(n) = <<ds[Len(ds)]>>)

\* The positions of the colons of a string.
Colons(str) == {i \in DOMAIN str : str[i] = ":"}

\* The fields of a string between its colons, in order.
RECURSIVE Fields(_)
Fields(str) ==
    IF Colons(str) = {} THEN <<str>>
    ELSE LET i == CHOOSE j \in Colons(str) : \A k \in Colons(str) : j <= k
         IN  <<SubSeq(str, 1, i - 1)>> \o Fields(SubSeq(str, i + 1, Len(str)))

IsNumber(ds) == ds # <<>> /\ \A i \in DOMAIN ds : ds[i] \in Digits

\* H:MM:SS: hours of one digit or more without a leading zero, then two
\* fields of two digits, each in 0..59.
IsHMMSS(str) ==
    LET f == Fields(str)
    IN  /\ Len(f) = 3
        /\ IsNumber(f[1]) /\ (Len(f[1]) > 1 => f[1][1] # "0") /\ ValueOf(f[1]) >= 1
        /\ Len(f[2]) = 2 /\ IsNumber(f[2]) /\ ValueOf(f[2]) <= 59
        /\ Len(f[3]) = 2 /\ IsNumber(f[3]) /\ ValueOf(f[3]) <= 59

\* M:SS: minutes of one or two digits without padding, in 0..59, then a
\* field of two digits in 0..59.
IsMSS(str) ==
    LET f == Fields(str)
    IN  /\ Len(f) = 2
        /\ IsNumber(f[1]) /\ (Len(f[1]) > 1 => f[1][1] # "0") /\ ValueOf(f[1]) <= 59
        /\ Len(f[2]) = 2 /\ IsNumber(f[2]) /\ ValueOf(f[2]) <= 59

\* The seconds a formatted time shows.
SecondsShown(str) ==
    LET f == Fields(str)
    IN  IF Len(f) = 3 THEN 3600 * ValueOf(f[1]) + 60 * ValueOf(f[2]) + ValueOf(f[3])
        ELSE 60 * ValueOf(f[1]) + ValueOf(f[2])

\* The predicted time in whole seconds, cut off: timeMinutes * 60 with
\* timeMinutes = (0.52 * D + 911.29) / vo2max, which is D * 1000 / velocity.
PredictedSeconds(distanceM, vo2max10) ==
    (3 * (52 * distanceM + 91129000)) \div (500 * vo2max10)

\* C11: the marathon prediction for a VO2max of 50 is a string of the form
\* H:MM:SS showing the time the formula gives.
C11_MarathonHMMSS ==
    (op = "predictTime" /\ arg = <<42195, 500>>) =>
        /\ IsHMMSS(ret)
        /\ SecondsShown(ret) = PredictedSeconds(42195, 500)

\* C12: for a positive vo2max predictTime returns H:MM:SS when the
\* predicted time is an hour or more and M:SS when it is less, and the
\* fields shown add up to the predicted time cut off to whole seconds.
C12_Format ==
    op = "predictTime" =>
        LET total == PredictedSeconds(arg[1], arg[2])
        IN  /\ total >= 3600 => IsHMMSS(ret)
            /\ total < 3600 => IsMSS(ret)
            /\ SecondsShown(ret) = total

\* A time of ten hours or more with minutes that need padding (11:06:35).
C12_Witness ==
    /\ op = "predictTime"
    /\ Len(ret) = 8
    /\ ret[4] = "0"

-----------------------------------------------------------------------------
(* Claims on predictRaceTimes *)

\* The samples of the engine, as generateVO2maxHistory lists them.
Samples == generateVO2maxHistory(activities, maxHR)

\* A sample dated within the most recent 30 days: its date, at 00:00 UTC,
\* is not before the moment 30 calendar days before the call.
InWindow(h) == h.date * 24 >= setDatePlus(zone, now, -30)

WindowSamples == {i \in DOMAIN Samples : InWindow(Samples[i])}

RECURSIVE SumOver(_)
SumOver(I) == IF I = {} THEN 0
              ELSE LET i == CHOOSE j \in I : TRUE
                   IN  Samples[i].vo2max + SumOver(I \ {i})

\* The result is based on the VO2max sum10 / (10 * count): it reports that
\* value rounded to a tenth, and each time shown is the formula's time for
\* the unrounded value, cut off to whole seconds.
BasedOn(r, sum10, count) ==
    /\ r.currentVO2max = (2 * sum10 + count) \div (2 * count)
    /\ \A label \in RaceLabels :
           SecondsShown(r.predictions[label])
               = (3 * (52 * raceDistance(label) + 91129000) * count) \div (500 * sum10)

\* C13: predictRaceTimes returns null when there is no sample; otherwise
\* it is based on the mean of the samples dated within the most recent 30
\* days, or, when there is none, on one sample of the latest date.
C13_RecentMean ==
    op = "predictRaceTimes" =>
        IF Samples = <<>> THEN ret = NoObject
        ELSE /\ ret # NoObject
             /\ IF WindowSamples # {}
                THEN BasedOn(ret, SumOver(WindowSamples), Cardinality(WindowSamples))
                ELSE \E i \in DOMAIN Samples :
                         /\ \A j \in DOMAIN Samples : Samples[j].date <= Samples[i].date
                         /\ BasedOn(ret, Samples[i].vo2max, 1)

\* A prediction from the mean of two samples of different value, one of
\* them dated on the first day of the window.
C13_Witness ==
    /\ op = "predictRaceTimes" /\ ret # NoObject
    /\ Cardinality(WindowSamples) = 2
    /\ \E i, j \in WindowSamples : /\ Samples[i].vo2max # Samples[j].vo2max
                                  /\ Samples[i].date = 8

-----------------------------------------------------------------------------
(* Claims on detectIntervals and calculateWorkoutQuality *)

\* Two characters that are equal when case is ignored.
SameLetter(c, d) ==
    \/ c = d
    \/ \E k \in DOMAIN UpperCase : {c, d} = {UpperCase[k], LowerCase[k]}

\* name contains part, compared case-insensitively.
ContainsIgnoringCase(name, part) ==
    \E i \in 0..(Len(name) - Len(part)) :
        \A k \in 1..Len(part) : SameLetter(name[i + k], part[k])

Patterns == {<<"i", "n", "t", "e", "r", "v", "a", "l">>, <<"x", " ">>, <<"t", "e", "m", "p", "o">>, <<"f", "a", "r", "t", "l", "e", "k">>, <<"r", "e", "p">>}

\* The activities the claim classifies as interval workouts.
Classified == {i \in DOMAIN activities : \E part \in Patterns : ContainsIgnoringCase(activities[i].name, part)}

\* C14: when detectIntervals returns, its entries are the activities whose
\* name contains, case ignored, one of interval, "x ", tempo, fartlek, rep:
\* one entry for each of them and no other; so "5 x 1000m" has an entry and
\* "Easy recovery jog" has none.
C14_Classified ==
    (op = "detectIntervals" /\ error = "none") =>
        /\ Len(ret) = Cardinality(Classified)
        /\ \A i \in Classified : \E j \in DOMAIN ret : ret[j].name = activities[i].name
        /\ \A j \in DOMAIN ret : \E i \in Classified : ret[j].name = activities[i].name
        /\ \A i \in DOMAIN activities :
               /\ activities[i].name = <<"5", " ", "x", " ", "1", "0", "0", "0", "m">> => \E j \in DOMAIN ret : ret[j].name = <<"5", " ", "x", " ", "1", "0", "0", "0", "m">>
               /\ activities[i].name = <<"E", "a", "s", "y", " ", "r", "e", "c", "o", "v", "e", "r", "y", " ", "j", "o", "g">> => \A j \in DOMAIN ret : ret[j].name # <<"E", "a", "s", "y", " ", "r", "e", "c", "o", "v", "e", "r", "y", " ", "j", "o", "g">>

\* Both named activities in one list, with a third that is classified by
\* an upper-case name.
C14_Witness ==
    /\ op = "detectIntervals" /\ error = "none"
    /\ \E i, j, k \in DOMAIN activities :
           /\ activities[i].name = <<"5", " ", "x", " ", "1", "0", "0", "0", "m">>
           /\ activities[j].name = <<"E", "a", "s", "y", " ", "r", "e", "c", "o", "v", "e", "r", "y", " ", "j", "o", "g">>
           /\ activities[k].name = <<"I", "N", "T", "E", "R", "V", "A", "L", "S">>
    /\ Len(ret) = 2

\* C15: calculateWorkoutQuality returns a score from 0 to 10 for every
\* activity and every tss, NaN and extreme values included.
C15_Clamped ==
    op = "calculateWorkoutQuality" => ret \in 0..10

\* The top score on extreme inputs.
C15_Witness ==
    /\ op = "calculateWorkoutQuality"
    /\ arg[2] = 500000 /\ arg[1].average_heartrate = 250 /\ arg[1].average_watts = 100000
    /\ ret = 10

\* C16: the list detectIntervals returns is sorted by date, latest first: no
\* entry is dated before the entry that follows it.
C16_SortedDescending ==
    (op = "detectIntervals" /\ error = "none") =>
        \A j \in 1..(Len(ret) - 1) : ret[j].date >= ret[j + 1].date

\* Three workouts given oldest first and returned latest first.
C16_Witness ==
    /\ op = "detectIntervals" /\ error = "none"
    /\ Len(ret) = 3 /\ Len(activities) = 3
    /\ activities[1].start_day < activities[2].start_day
    /\ activities[2].start_day < activities[3].start_day
    /\ ret[1].date > ret[2].date /\ ret[2].date > ret[3].date

-----------------------------------------------------------------------------
(* Claims on the engine over its lifetime *)

\* The call just made repeats the call kept in seen, after at least one
\* call of another operation.
RepeatsKept ==
    /\ seen # NoObject
    /\ seen.op = op
    /\ seen.arg = arg
    /\ seen.other # ""

\* C17: no derivation operation raises on activity records with absent
\* fields.
C17_NeverRaises == error = "none"

\* C18: a call of generateVO2maxHistory returns the list an earlier call on
\* the same engine returned, whatever was called and however far the clock
\* moved in between.
C18_SameHistory ==
    (op = "generateVO2maxHistory" /\ seen # NoObject /\ seen.op = "generateVO2maxHistory") =>
        ret = seen.ret /\ error = seen.error

\* A second call that returns two samples, after a call of another
\* operation and past midnight.
C18_Witness ==
    /\ op = "generateVO2maxHistory" /\ RepeatsKept
    /\ now > seen.now
    /\ Len(ret) = 2

\* C19 as stated: a call returns what an earlier call of the same operation
\* with the same argument returned, whatever the clock did in between.
C19_SameResult ==
    (seen # NoObject /\ seen.op = op /\ seen.arg = arg) =>
        ret = seen.ret /\ error = seen.error

\* C19, amended: a call returns what an earlier call of the same operation
\* with the same argument returned at the same reading of the clock.
C19_SameResultSameClock ==
    (seen # NoObject /\ seen.op = op /\ seen.arg = arg /\ seen.now = now) =>
        ret = seen.ret /\ error = seen.error

\* predictRaceTimes called twice at one reading of the clock, another
\* operation in between.
C19_Witness ==
    /\ op = "predictRaceTimes" /\ RepeatsKept
    /\ seen.now = now
    /\ ret # NoObject

\* C20: no step changes the activity list or the profile.
C20_EngineUnchanged == [][engine' = engine]_vars

\* A list that is not in order of start, after generateTrainingLoadHistory
\* and a later call.
C20_Witness ==
    /\ seen # NoObject /\ seen.op = "generateTrainingLoadHistory"
    /\ seen.other = "detectIntervals" /\ op = "detectIntervals"
    /\ Len(activities) = 2
    /\ parseStart(activities[1]) > parseStart(activities[2])

-----------------------------------------------------------------------------
(* Claims on the page *)

\* The index before i and after i, going round.
Before(i, n) == IF i = 0 THEN n - 1 ELSE i - 1
After(i, n) == IF i = n - 1 THEN 0 ELSE i + 1

\* C21: a key pressed while the modal is open: ArrowLeft shows the previous
\* photo, ArrowRight the next one, Escape closes the modal.  A key pressed
\* while the modal is closed leaves the current image index and the modal
\* alone; the page is left only by an arrow key whose link exists.
C21_Keys ==
    [][(op' = "keydown" /\ page.location = "here") =>
          IF page.isModalOpen
          THEN /\ arg' = "ArrowLeft" =>
                      /\ page'.currentImageIndex = Before(page.currentImageIndex, page.images)
                      /\ page'.modalSrc = page'.currentImageIndex
                      /\ page'.isModalOpen /\ page'.modalActive
               /\ arg' = "ArrowRight" =>
                      /\ page'.currentImageIndex = After(page.currentImageIndex, page.images)
                      /\ page'.modalSrc = page'.currentImageIndex
                      /\ page'.isModalOpen /\ page'.modalActive
               /\ arg' = "Escape" => ~page'.isModalOpen /\ ~page'.modalActive
               /\ page'.location = "here"
          ELSE /\ page'.currentImageIndex = page.currentImageIndex
               /\ ~page'.isModalOpen /\ ~page'.modalActive
               /\ page'.modalSrc = page.modalSrc
               /\ page'.location = (IF arg' = "ArrowLeft" /\ page.navPrevious THEN "previous"
                                    ELSE IF arg' = "ArrowRight" /\ page.navNext THEN "next"
                                    ELSE "here")
      ]_vars

\* ArrowLeft pressed on the first of three photos of a post that has a
\* previous link: the last photo is shown and the page is not left.
C21_Witness ==
    /\ op = "keydown" /\ arg = "ArrowLeft"
    /\ page.isModalOpen /\ page.navPrevious
    /\ page.images = 3 /\ page.currentImageIndex = 2
    /\ page.location = "here"

\* A step that is a next action, a previous action.
IsNext == (op' = "click" /\ arg' = "modal-next") \/ (op' = "keydown" /\ arg' = "ArrowRight" /\ page.isModalOpen)
IsPrevious == (op' = "click" /\ arg' = "modal-prev") \/ (op' = "keydown" /\ arg' = "ArrowLeft" /\ page.isModalOpen)

\* C28: on a gallery with an image, currentImageIndex is always the index
\* of an image; next from the last image shows the first, previous from
\* the first shows the last, and previous after next gives the index back.
C28_IndexInRange ==
    /\ [](page.images >= 1 => page.currentImageIndex \in 0..(page.images - 1))
    /\ [][(page.images >= 1 /\ page.location = "here") =>
            /\ (IsNext /\ page.currentImageIndex = page.images - 1) => page'.currentImageIndex = 0
            /\ (IsPrevious /\ page.currentImageIndex = 0) => page'.currentImageIndex = page.images - 1
            /\ IsNext => showPreviousImage(page').currentImageIndex = page.currentImageIndex
         ]_vars

\* The next button pressed on the last of three images.
C28_Witness ==
    /\ op = "click" /\ arg = "modal-next"
    /\ page.images = 3 /\ page.currentImageIndex = 0

\* C29: the body carries no-scroll exactly when the modal is open or the
\* sidebar is active.
C29_NoScroll == page.noScroll <=> (page.isModalOpen \/ page.sidebarActive)

\* C30: once the charts are initialized one theme observer is registered,
\* and a change of data-theme has made one call of initializeStravaCharts.
C30_OneObserver ==
    charts.initialized > 0 =>
        /\ charts.observers = 1
        /\ charts.changes > 0 => charts.calls = 1

-----------------------------------------------------------------------------
(* Claims on the training load, the daily sums and the threshold power *)

\* The sum of the scores of the activities of a list that start on a local day.
RECURSIVE DayTSS(_, _)
DayTSS(acts, day) ==
    IF acts = <<>> THEN 0
    ELSE DayTSS(Tail(acts), day)
            + (IF toDateString(zone, parseStart(Head(acts))) = day
               THEN calculateTSS(Head(acts), ftp, maxHR, restingHR) ELSE 0)

\* The value, in millionths, after i days of a window that starts on the
\* local day first: 0 before the first day, then previous + (tss - previous) k.
RECURSIVE FoldedTo(_, _, _)
FoldedTo(i, first, k) ==
    IF i = 0 THEN 0
    ELSE LET previous == FoldedTo(i - 1, first, k)
         IN  previous + TimesK(DayTSS(activities, first + i - 1) * 1000000 - previous, k)

\* C22: the i-th point of generateTrainingLoadHistory carries the values of
\* a fold over the consecutive local days of the window, seeded at 0, each
\* day previous + (tssToday - previous) k with tssToday = 0 on a day without
\* activities; only the emitted values are rounded to one decimal.
C22_Fold ==
    op = "generateTrainingLoadHistory" =>
        LET first == toDateString(zone, now) - arg
        IN  \A i \in 1..Len(ret) :
                /\ ret[i].ctl = Round(FoldedTo(i, first, K42), 100000)
                /\ ret[i].atl = Round(FoldedTo(i, first, K7), 100000)

\* Three points, an activity on the first day and none later: the values
\* decay, and the unrounded fatigue 23.56 gives 20.4 the day after where the
\* rounded 23.6 would give 20.5.
C22_Witness ==
    /\ op = "generateTrainingLoadHistory" /\ arg = 2 /\ Len(ret) = 3
    /\ DayTSS(activities, toDateString(zone, now) - 2) = 177
    /\ DayTSS(activities, toDateString(zone, now) - 1) = 0
    /\ ret[1].atl = 236 /\ ret[2].atl = 204
    /\ ret[2].ctl < ret[1].ctl

\* getDailyTSS()[d], 0 when the date is absent.
Daily(d) ==
    LET dailyData == getDailyTSS(activities, ftp, maxHR, restingHR)
    IN  IF d \in DOMAIN dailyData THEN dailyData[d] ELSE 0

\* The value, in millionths, after the first i points of a history when the
\* score fed for a point is getDailyTSS() at the point's label.
RECURSIVE FoldedByLabel(_, _)
FoldedByLabel(i, k) ==
    IF i = 0 THEN 0
    ELSE LET previous == FoldedByLabel(i - 1, k)
         IN  previous + TimesK(Daily(ret[i].date) * 1000000 - previous, k)

\* C23: for every point of generateTrainingLoadHistory labelled d, the daily
\* score fed into CTL and ATL is getDailyTSS()[d] (0 when d is absent), in
\* every host zone.
C23_FedFromDailyTSS ==
    op = "generateTrainingLoadHistory" =>
        \A i \in 1..Len(ret) :
            /\ ret[i].ctl = Round(FoldedByLabel(i, K42), 100000)
            /\ ret[i].atl = Round(FoldedByLabel(i, K7), 100000)

\* The activities estimateFTP keeps, and those of 20 to 30 minutes among them.
Qualifying == {a \in Range(activities) : a.average_watts \notin {Undefined, 0} /\ a.moving_time >= 1200}
InRange == {a \in Qualifying : a.moving_time <= 1800}

\* The power an effort is ranked by.
RankPower(a) ==
    IF a.weighted_average_watts \in {Undefined, 0} THEN a.average_watts ELSE a.weighted_average_watts

\* The greatest number of a non-empty set.
Greatest(S) == CHOOSE p \in S : \A q \in S : q <= p

\* C24 as the code has it: 250 without a qualifying activity; with an effort
\* of 20 to 30 minutes, 0.95 P rounded to the nearest integer, P the
\* greatest weighted (else average) power of those efforts.
C24_RoundedFTP ==
    /\ Qualifying = {} => ftp = 250
    /\ InRange # {} => IsRounded(ftp, 95 * Greatest({RankPower(a) : a \in InRange}), 100)
    /\ op = "estimateFTP" => ret = ftp

\* C24 as stated: the value returned is 0.95 P itself.
C24_ExactFTP ==
    op = "estimateFTP" =>
        /\ Qualifying = {} => ret = 250
        /\ InRange # {} => 100 * ret = 95 * Greatest({RankPower(a) : a \in InRange})

\* Two efforts in range, the one with the lower average_watts ranked first
\* by its weighted power: 0.95 x 330 = 313.5 gives 314.
C24_Witness ==
    /\ op = "estimateFTP" /\ ret = 314
    /\ \E a \in InRange, b \in InRange :
           a.average_watts < b.average_watts /\ RankPower(a) > RankPower(b)

\* C25 as the code has it: the fallback is taken when activities qualify and
\* none of them lasts 30 minutes or less; the result is then 0.75 times the
\* greatest average_watts of the qualifying activities, rounded.
C25_FallbackWhenNoneInRange ==
    (Qualifying # {} /\ InRange = {}) =>
        /\ IsRounded(ftp, 75 * Greatest({a.average_watts : a \in Qualifying}), 100)
        /\ op = "estimateFTP" => ret = ftp

\* C25 as stated: whenever an activity qualifies, an effort of 20 to 30
\* minutes exists.
C25_FallbackUnreachable ==
    (op = "estimateFTP" /\ Qualifying # {}) =>
        /\ InRange # {}
        /\ IsRounded(ret, 95 * Greatest({RankPower(a) : a \in InRange}), 100)

\* A ride of 1801 s at 310 W (weighted 320) alone: FTP 233.
C25_Witness ==
    /\ op = "estimateFTP" /\ ret = 233
    /\ Qualifying # {} /\ InRange = {}
    /\ \E a \in Qualifying : a.weighted_average_watts > a.average_watts

\* C26: for an activity without power and without heart-rate data, with
\* distance and moving_time, calculateTSS returns
\* round(durationHours * 60 * intensity): intensity 1.2 for a pace strictly
\* below 4.5 min/km, 0.8 from 4.5 to strictly below 5.5, and 0.5 from 5.5.
C26_PaceScore ==
    (/\ op = "calculateTSS"
     /\ arg.average_watts \in {Undefined, 0}
     /\ ~(arg.has_heartrate /\ arg.average_heartrate \notin {Undefined, 0})
     /\ arg.distance \notin {Undefined, 0}
     /\ arg.moving_time \notin {Undefined, 0}) =>
        LET \* pace = (moving_time / 60) / (distance / 1000), against 9/2 and 11/2
            tenths == IF 2000 * arg.moving_time < 9 * 60 * arg.distance THEN 12
                      ELSE IF 2000 * arg.moving_time < 11 * 60 * arg.distance THEN 8
                      ELSE 5
        IN  IsRounded(ret, arg.moving_time * tenths, 600)

\* 10 km in 45 minutes, pace exactly 4.5: 45 x 0.8 = 36; and the record
\* says has_heartrate without a heart rate.
C26_Witness ==
    /\ op = "calculateTSS"
    /\ arg.moving_time = 2700 /\ arg.distance = 10000
    /\ arg.average_watts = Undefined
    /\ arg.has_heartrate /\ arg.average_heartrate = Undefined
    /\ ret = 36

\* How often a record occurs in a list.
Count(acts, a) == Cardinality({i \in DOMAIN acts : acts[i] = a})

\* Two lists hold the same activities among those a test accepts.
AgreeOn(x, y, Test(_)) ==
    \A a \in Range(x) \cup Range(y) : Test(a) => Count(x, a) = Count(y, a)

\* The date of start_date_local lies in [today - daysBack, today].
DatedInWindow(a) ==
    a.start_day \in (toDateString(zone, now) - arg)..toDateString(zone, now)

\* The host's local day of new Date(start_date_local) lies in the window.
FallsInWindow(a) ==
    toDateString(zone, parseStart(a)) \in (toDateString(zone, now) - arg)..toDateString(zone, now)

\* The same call made on an earlier engine of the athlete.
SameCallSeen == op = "generateTrainingLoadHistory" /\ seen # NoObject /\ seen.arg = arg

\* C27 as the code has it: two engines with the same threshold power whose
\* lists agree on the activities that fall on a local day of the window
\* return the same history.
C27_WindowAndThreshold ==
    (SameCallSeen /\ seen.ftp = ftp /\ AgreeOn(seen.activities, activities, FallsInWindow)) =>
        ret = seen.ret

\* C27 as stated: two engines whose lists agree on the activities dated
\* inside the window return the same history.
C27_WindowOnly ==
    (SameCallSeen /\ AgreeOn(seen.activities, activities, DatedInWindow)) => ret = seen.ret

\* The ride inside the window on both engines, a run before the window on
\* one of them only: three equal points.
C27_Witness ==
    /\ SameCallSeen /\ arg = 2 /\ Len(ret) = 3
    /\ seen.ftp = ftp
    /\ AgreeOn(seen.activities, activities, FallsInWindow)
    /\ \E a \in Range(activities) : FallsInWindow(a)
    /\ \E a \in Range(activities) : ~FallsInWindow(a) /\ Count(seen.activities, a) = 0
    /\ ret[3].ctl > 0
    /\ ret = seen.ret

====
